---- MODULE Spec2Model ----
(***************************************************************************)
(* The Java runtime resolution pipeline of the launcher:                   *)
(* JavaManager (registry, startup scan, ensure, extraction, executable     *)
(* discovery), JavaDownloader (Adoptium and Mojang fetch, download and     *)
(* digest verification), Http::Download, the file hashers and the OS/Arch  *)
(* string mappings.                                                        *)
(*                                                                         *)
(* Strings that the code takes apart (directory names, version names) are  *)
(* sequences of tokens: a token is one of the characters "_", ".", a       *)
(* decimal digit, or a chunk of other characters.  Paths are sequences of  *)
(* such strings, relative to Config::javaRuntimesDir.                      *)
(***************************************************************************)
EXTENDS Integers, Sequences, FiniteSets, TLC

\* ------------------------------------------------------------------ bounds

\* ensureJavaForMinecraftVersion calls made in one behaviour
MaxCalls == 2

\* JavaManager objects constructed after the first one in one behaviour
MaxRestarts == 1

\* file-system faults (a directory that cannot be created, a file that cannot
\* be removed) in one behaviour
MaxFaults == 1

\* ----------------------------------------------------------------- strings

Digits == <<"0", "1", "2", "3", "4", "5", "6", "7", "8", "9">>

IsDigit(tok) == \E i \in 1..10 : Digits[i] = tok

DigitValue(tok) == (CHOOSE i \in 1..10 : Digits[i] = tok) - 1

RECURSIVE DigitsValue(_, _)
\* the value of the digit tokens s[1..n]
DigitsValue(s, n) ==
    IF n = 0 THEN 0 ELSE 10 * DigitsValue(s, n - 1) + DigitValue(s[n])

RECURSIVE LeadingDigits(_, _)
\* the number of digit tokens at the front of s from position i on
LeadingDigits(s, i) ==
    IF i > Len(s) \/ ~IsDigit(s[i]) THEN 0 ELSE 1 + LeadingDigits(s, i + 1)

\* what a conversion yields when it throws
NoValue == -1

\* std::stoul: the leading decimal digits; throws (NoValue) when there are none
stoul(s) ==
    IF LeadingDigits(s, 1) = 0 THEN NoValue
    ELSE DigitsValue(s, LeadingDigits(s, 1))

RECURSIVE to_string(_)
\* std::to_string of an unsigned int
to_string(n) ==
    IF n < 10 THEN <<Digits[n + 1]>>
    ELSE to_string(n \div 10) \o <<Digits[(n % 10) + 1]>>

npos == 0

\* std::string::rfind(ch): position of the last ch, npos when absent
rfind(s, ch) ==
    IF \E i \in 1..Len(s) : s[i] = ch
    THEN CHOOSE i \in 1..Len(s) : s[i] = ch /\ \A j \in (i + 1)..Len(s) : s[j] # ch
    ELSE npos

\* std::string::find(ch): position of the first ch, npos when absent
find(s, ch) ==
    IF \E i \in 1..Len(s) : s[i] = ch
    THEN CHOOSE i \in 1..Len(s) : s[i] = ch /\ \A j \in 1..(i - 1) : s[j] # ch
    ELSE npos

\* s.rfind(prefix, 0) == 0
StartsWith(s, prefix) ==
    Len(s) >= Len(prefix) /\ SubSeq(s, 1, Len(prefix)) = prefix

\* ---------------------------------------------------------------- platform

OperatingSystems == {"WINDOWS", "MACOS", "LINUX", "UNKNOWN"}

Architectures == {"X64", "X86", "ARM64", "ARM32", "UNKNOWN"}

UnknownOsArchMojang == "unknown-os-arch-mojang"

\* variant: Linux on any other architecture takes the key of Linux x64
getOSStringForJavaManifestLinuxDefault(o, a) ==
    CASE o = "WINDOWS" /\ a = "X64" -> "windows-x64"
      [] o = "WINDOWS" /\ a = "X86" -> "windows-x86"
      [] o = "WINDOWS" /\ a = "ARM64" -> "windows-arm64"
      [] o = "MACOS" /\ a = "X64" -> "mac-os"
      [] o = "MACOS" /\ a = "ARM64" -> "mac-os-arm64"
      [] o = "LINUX" /\ a = "ARM64" -> "linux-aarch64"
      [] o = "LINUX" /\ a = "ARM32" -> "linux-arm"
      [] o = "LINUX" -> "linux"
      [] OTHER -> UnknownOsArchMojang

getOSStringForJavaManifest(o, a) ==
    CASE o = "WINDOWS" /\ a = "X64" -> "windows-x64"
      [] o = "WINDOWS" /\ a = "X86" -> "windows-x86"
      [] o = "WINDOWS" /\ a = "ARM64" -> "windows-arm64"
      [] o = "MACOS" /\ a = "X64" -> "mac-os"
      [] o = "MACOS" /\ a = "ARM64" -> "mac-os-arm64"
      [] o = "LINUX" /\ a = "X64" -> "linux"
      [] o = "LINUX" /\ a = "ARM64" -> "linux-aarch64"
      [] o = "LINUX" /\ a = "ARM32" -> "linux-arm"
      [] OTHER -> UnknownOsArchMojang

getOSStringForAdoptium(o) ==
    CASE o = "WINDOWS" -> "windows"
      [] o = "MACOS" -> "mac"
      [] o = "LINUX" -> "linux"
      [] OTHER -> ""

getArchStringForAdoptium(a) ==
    CASE a = "X64" -> "x64"
      [] a = "X86" -> "x86"
      [] a = "ARM64" -> "aarch64"
      [] a = "ARM32" -> "arm"
      [] OTHER -> ""

\* the platforms a behaviour may be built for
Platforms ==
    { <<"LINUX", "X64">>, <<"LINUX", "UNKNOWN">>, <<"UNKNOWN", "UNKNOWN">> }

\* -------------------------------------------------------------- file system

Str(word) == <<word>>

\* A directory that may be a Java home: whether it has a bin directory, the
\* regular files in bin, whether it has a lib directory, a regular file
\* release, a directory Contents/Home/bin, and the regular files in that.
Home(name, bin, exes, lib, release, macbin, macexes) ==
    [name |-> name, bin |-> bin, exes |-> exes, lib |-> lib,
     release |-> release, macbin |-> macbin, macexes |-> macexes]

NoHome(name) == Home(name, FALSE, {}, FALSE, FALSE, FALSE, {})

\* The tree below an extraction directory: the directory itself as a possible
\* home, and its immediate subdirectories other than bin in the order
\* std::filesystem::directory_iterator yields them.
Tree(root, subs) == [root |-> root, subs |-> subs]

NoDir == [absent |-> TRUE]

\* a path that names a regular file, not a directory
RegularFile == [file |-> TRUE]

EmptyTree == Tree(NoHome(<<>>), <<>>)

JdkName == Str("jdk-17.0.7+7-jre")

\* root/jdk-17.0.7+7-jre/{bin/java, lib}: what a Linux JRE archive unpacks to
NestedTree ==
    Tree(NoHome(<<>>), <<Home(JdkName, TRUE, {"java"}, TRUE, TRUE, FALSE, {})>>)

\* the same tree cut short before lib and release were written
NestedPartialTree ==
    Tree(NoHome(<<>>), <<Home(JdkName, TRUE, {"java"}, FALSE, FALSE, FALSE, {})>>)

\* root/{bin/java, bin/javaw.exe, bin/java.exe, lib}
FlatTree ==
    Tree(Home(<<>>, TRUE, {"java", "javaw.exe", "java.exe"}, TRUE, TRUE, FALSE, {}),
         <<NoHome(Str("lib"))>>)

\* root/jdk-17.0.7+7-jre/Contents/Home/{bin/java, lib}: a macOS bundle
MacTree ==
    Tree(NoHome(<<>>), <<Home(JdkName, FALSE, {}, FALSE, FALSE, TRUE, {"java"})>>)

\* root/docs, root/legal: an archive with no runtime in it
NoJavaTree ==
    Tree(NoHome(<<>>), <<NoHome(Str("docs")), NoHome(Str("legal"))>>)

ExeNames == {"java", "javaw.exe", "java.exe"}

NoPath == <<>>

\* variant: only a bin directory makes a subdirectory a likely home
FirstLikelyHomeBinOnly(subs) ==
    IF \E i \in 1..Len(subs) : subs[i].bin
    THEN CHOOSE i \in 1..Len(subs) : subs[i].bin /\ \A j \in 1..(i - 1) : ~subs[j].bin
    ELSE 0

\* position of the first subdirectory with a bin directory or a release file
\* (JavaManager.cpp 184-197), 0 when there is none
FirstLikelyHome(subs) ==
    IF \E i \in 1..Len(subs) : subs[i].bin \/ subs[i].release
    THEN CHOOSE i \in 1..Len(subs) :
            /\ subs[i].bin \/ subs[i].release
            /\ \A j \in 1..(i - 1) : ~(subs[j].bin \/ subs[j].release)
    ELSE 0

\* variant: Contents/Home/bin is preferred on every operating system
ExecutableInBundleOnAnySystem(o, h, hp) ==
    LET useMac == h.macbin
        binOk == IF useMac THEN TRUE ELSE h.bin
        files == IF useMac THEN h.macexes ELSE h.exes
        binDir == IF useMac THEN hp \o <<Str("Contents"), Str("Home"), Str("bin")>>
                  ELSE hp \o <<Str("bin")>>
        exe == IF o = "WINDOWS"
               THEN (IF "javaw.exe" \in files THEN "javaw.exe" ELSE "java.exe")
               ELSE "java"
    IN  IF ~binOk THEN NoPath
        ELSE IF exe \in files THEN binDir \o <<Str(exe)>>
        ELSE NoPath

\* variant: java.exe is preferred to javaw.exe
ExecutableInJavaExeFirst(o, h, hp) ==
    LET useMac == o = "MACOS" /\ h.macbin
        binOk == IF useMac THEN TRUE ELSE h.bin
        files == IF useMac THEN h.macexes ELSE h.exes
        binDir == IF useMac THEN hp \o <<Str("Contents"), Str("Home"), Str("bin")>>
                  ELSE hp \o <<Str("bin")>>
        exe == IF o = "WINDOWS"
               THEN (IF "java.exe" \in files THEN "java.exe" ELSE "javaw.exe")
               ELSE "java"
    IN  IF ~binOk THEN NoPath
        ELSE IF exe \in files THEN binDir \o <<Str(exe)>>
        ELSE NoPath

\* variant: the path is returned without the test that the file exists
ExecutableInUnchecked(o, h, hp) ==
    LET useMac == o = "MACOS" /\ h.macbin
        binOk == IF useMac THEN TRUE ELSE h.bin
        files == IF useMac THEN h.macexes ELSE h.exes
        binDir == IF useMac THEN hp \o <<Str("Contents"), Str("Home"), Str("bin")>>
                  ELSE hp \o <<Str("bin")>>
        exe == IF o = "WINDOWS"
               THEN (IF "javaw.exe" \in files THEN "javaw.exe" ELSE "java.exe")
               ELSE "java"
    IN  IF ~binOk THEN NoPath
        ELSE binDir \o <<Str(exe)>>

\* the executable inside the bin directory of home h, whose path is hp
ExecutableIn(o, h, hp) ==
    LET useMac == o = "MACOS" /\ h.macbin
        binOk == IF useMac THEN TRUE ELSE h.bin
        files == IF useMac THEN h.macexes ELSE h.exes
        binDir == IF useMac THEN hp \o <<Str("Contents"), Str("Home"), Str("bin")>>
                  ELSE hp \o <<Str("bin")>>
        exe == IF o = "WINDOWS"
               THEN (IF "javaw.exe" \in files THEN "javaw.exe" ELSE "java.exe")
               ELSE "java"
    IN  IF ~binOk THEN NoPath
        ELSE IF exe \in files THEN binDir \o <<Str(exe)>>
        ELSE NoPath

\* variant: a single subdirectory is entered before the base's own bin is tried
findJavaExecutableNestedFirst(o, base, t) ==
    IF t = NoDir THEN NoPath
    ELSE IF Len(t.subs) = 1
         THEN ExecutableIn(o, t.subs[1], base \o <<t.subs[1].name>>)
    ELSE IF t.root.bin THEN ExecutableIn(o, t.root, base)
    ELSE IF Len(t.subs) > 1
         THEN IF FirstLikelyHome(t.subs) = 0 THEN NoPath
              ELSE ExecutableIn(o, t.subs[FirstLikelyHome(t.subs)],
                                base \o <<t.subs[FirstLikelyHome(t.subs)].name>>)
    ELSE NoPath

\* JavaManager::findJavaExecutable on the directory base (a path) holding tree t
findJavaExecutable(o, base, t) ==
    IF t = NoDir \/ t = RegularFile THEN NoPath
    ELSE IF t.root.bin THEN ExecutableIn(o, t.root, base)
    ELSE IF Len(t.subs) = 1
         THEN ExecutableIn(o, t.subs[1], base \o <<t.subs[1].name>>)
    ELSE IF Len(t.subs) > 1
         THEN IF FirstLikelyHome(t.subs) = 0 THEN NoPath
              ELSE ExecutableIn(o, t.subs[FirstLikelyHome(t.subs)],
                                base \o <<t.subs[FirstLikelyHome(t.subs)].name>>)
    ELSE NoPath

\* std::filesystem::path::parent_path
parent_path(p) == IF Len(p) = 0 THEN p ELSE SubSeq(p, 1, Len(p) - 1)

\* variant: the aggregate's last two members initialised in the wrong order
JavaRuntimeSwapped(home, exe, major, component, source) ==
    [homePath |-> home, javaExecutablePath |-> exe, majorVersion |-> major,
     componentName |-> source, source |-> component]

JavaRuntime(home, exe, major, component, source) ==
    [homePath |-> home, javaExecutablePath |-> exe, majorVersion |-> major,
     componentName |-> component, source |-> source]

\* JavaManager::getExtractionPathForRuntime: the directory name
getExtractionPathForRuntime(jv) ==
    jv.component \o Str("_") \o to_string(jv.majorVersion)

DownloadsName == <<"_", "downloads">>

Unknown == Str("unknown")

\* variant: the remainder is split at its first '_' wherever that '_' stands
ParseRuntimeDirAnyUnderscore(dirName, javaExe) ==
    LET last == rfind(dirName, "_")
        parsable == last # npos /\ last < Len(dirName)
        ver == IF parsable THEN stoul(SubSeq(dirName, last + 1, Len(dirName)))
               ELSE NoValue
        majorVersion == IF ver = NoValue THEN 0 ELSE ver
        prefix == IF parsable THEN SubSeq(dirName, 1, last - 1) ELSE <<>>
        first == find(prefix, "_")
        split == first # npos
        source == IF ~parsable \/ ver = NoValue THEN Unknown
                  ELSE IF split THEN SubSeq(prefix, 1, first - 1)
                  ELSE Str("user_provided")
        component == IF ~parsable \/ ver = NoValue THEN Unknown
                     ELSE IF split THEN SubSeq(prefix, first + 1, Len(prefix))
                     ELSE prefix
    IN  IF majorVersion > 0 /\ component # Unknown /\ component # <<>>
        THEN <<JavaRuntime(parent_path(parent_path(javaExe)), javaExe,
                           majorVersion, component, source)>>
        ELSE <<>>

\* the records scanForExistingRuntimes appends for a directory name and the
\* executable found in it (JavaManager.cpp 348-382): one record, or none when
\* the name does not parse
ParseRuntimeDir(dirName, javaExe) ==
    LET last == rfind(dirName, "_")
        parsable == last # npos /\ last < Len(dirName)
        ver == IF parsable THEN stoul(SubSeq(dirName, last + 1, Len(dirName)))
               ELSE NoValue
        majorVersion == IF ver = NoValue THEN 0 ELSE ver
        prefix == IF parsable THEN SubSeq(dirName, 1, last - 1) ELSE <<>>
        first == find(prefix, "_")
        split == first # npos /\ first < Len(prefix)
        source == IF ~parsable \/ ver = NoValue THEN Unknown
                  ELSE IF split THEN SubSeq(prefix, 1, first - 1)
                  ELSE Str("user_provided")
        component == IF ~parsable \/ ver = NoValue THEN Unknown
                     ELSE IF split THEN SubSeq(prefix, first + 1, Len(prefix))
                     ELSE prefix
    IN  IF majorVersion > 0 /\ component # Unknown /\ component # <<>>
        THEN <<JavaRuntime(parent_path(parent_path(javaExe)), javaExe,
                           majorVersion, component, source)>>
        ELSE <<>>

Sources == {"adoptium", "mojang"}

\* the tree of _downloads, which holds one directory per source
DownloadsTree(dls) ==
    IF dls = {} THEN NoDir
    ELSE Tree(NoHome(<<>>),
              (IF "adoptium" \in dls THEN <<NoHome(Str("adoptium"))>> ELSE <<>>)
              \o (IF "mojang" \in dls THEN <<NoHome(Str("mojang"))>> ELSE <<>>))

\* the tree of the directory dirName of the runtime root
TreeAt(disk, dls, dirName) ==
    IF dirName = DownloadsName THEN DownloadsTree(dls) ELSE disk[dirName]

\* what one entry of the runtime root adds to the registry (JavaManager.cpp 341-386)
ScanEntry(o, disk, dls, dirName) ==
    IF StartsWith(dirName, DownloadsName) THEN <<>>
    ELSE LET javaExe == findJavaExecutable(o, <<dirName>>, TreeAt(disk, dls, dirName))
         IN  IF javaExe = NoPath THEN <<>> ELSE ParseRuntimeDir(dirName, javaExe)

RECURSIVE ScanFrom(_, _, _, _, _)
\* the records scanForExistingRuntimes appends for entries[i..] of the root
ScanFrom(o, disk, dls, entries, i) ==
    IF i > Len(entries) THEN <<>>
    ELSE ScanEntry(o, disk, dls, entries[i]) \o ScanFrom(o, disk, dls, entries, i + 1)

\* JavaManager::scanForExistingRuntimes: the registry after a scan that meets
\* the root's directories in the order entries
scanForExistingRuntimes(o, disk, dls, entries) == ScanFrom(o, disk, dls, entries, 1)

\* the directories of the runtime root
RootEntries(disk, dls) ==
    {n \in DOMAIN disk : disk[n] # NoDir} \cup (IF dls = {} THEN {} ELSE {DownloadsName})

\* the orders in which directory_iterator may yield the set S
Orderings(S) ==
    {q \in [1..Cardinality(S) -> S] : \A i, j \in 1..Cardinality(S) : i # j => q[i] # q[j]}

\* ------------------------------------------------------------ requirements

Gamma == Str("java-runtime-gamma")

MyJre == <<"my", "_", "jre">>

JavaVersion(component, majorVersion) ==
    [component |-> component, majorVersion |-> majorVersion]

\* the javaVersion values of the version descriptors a caller passes
Requirements ==
    { JavaVersion(Gamma, 17), JavaVersion(MyJre, 17) }

NoJavaVersion == [absent |-> TRUE]

\* mcVersion.javaVersion: a requirement, or std::nullopt
Versions == Requirements \cup {NoJavaVersion}

\* a directory with the legacy name {source}_{component}_{majorVersion}
LegacyName == Str("adoptium") \o Str("_") \o Gamma \o Str("_") \o to_string(17)

\* the directory names that occur under the runtime root
DirNames == {getExtractionPathForRuntime(r) : r \in Requirements} \cup {LegacyName}

\* ------------------------------------------------------- archives, digests

\* the byte contents a download may deliver
Contents == {"jre", "nojava"}

NoFile == "none"

\* what is on disk after a transfer that did not complete
PartialContent == "partial"

FileNames == {Str("jre.zip")}

\* the lower-case hex SHA-256 of each content
Sha256Of(content) ==
    CASE content = "jre" -> "aa"
      [] content = "nojava" -> "cc"
      [] OTHER -> "ee"

\* the lower-case hex SHA-1 of each content
Sha1Of(content) ==
    CASE content = "jre" -> "1a"
      [] content = "nojava" -> "1c"
      [] OTHER -> "1e"

\* Utils::calculateFileSHA256: the digest, or "" when the file cannot be
\* opened or a crypto call fails
calculateFileSHA256(content, readable) ==
    IF content = NoFile \/ ~readable THEN "" ELSE Sha256Of(content)

\* Utils::calculateFileSHA1
calculateFileSHA1(content, readable) ==
    IF content = NoFile \/ ~readable THEN "" ELSE Sha1Of(content)

\* the digests an upstream announces
ExpectedSha256 == {"aa", "AA", "cc", ""}

ExpectedSha1 == {"1a", "1c", ""}

NotZip == [notzip |-> TRUE]

\* the tree a content unpacks to; NotZip when minizip cannot open it
ArchiveTree(content) ==
    CASE content = "jre" -> NestedTree
      [] content = "nojava" -> NoJavaTree
      [] OTHER -> NotZip

\* the trees on disk when extraction stops at some entry of the archive
Partials(t) == {EmptyTree} \cup (IF t = NestedTree THEN {NestedPartialTree} ELSE {})

Extracted(ok, tree, faulted) == [ok |-> ok, tree |-> tree, faulted |-> faulted]

\* what a directory holds after the entries of home b were written into home a
OverlayHome(a, b) ==
    Home(b.name, a.bin \/ b.bin, a.exes \cup b.exes, a.lib \/ b.lib,
         a.release \/ b.release, a.macbin \/ b.macbin, a.macexes \cup b.macexes)

\* the tree of a directory that held old after every entry of the tree new
\* was written into it: entries of the same name are merged, the others kept
Overlay(old, new) ==
    IF old = NoDir THEN new
    ELSE LET named(subs, n) == { i \in 1..Len(subs) : subs[i].name = n }
             merged == [i \in 1..Len(new.subs) |->
                          IF named(old.subs, new.subs[i].name) = {} THEN new.subs[i]
                          ELSE OverlayHome(old.subs[CHOOSE j \in named(old.subs,
                                                                       new.subs[i].name) : TRUE],
                                           new.subs[i])]
             isOld(h) == named(new.subs, h.name) = {}
         IN  Tree(OverlayHome(old.root, new.root), merged \o SelectSeq(old.subs, isOld))

\* variant: the archive is extracted into the directory as it is, without
\* remove_all
extractJavaArchiveNoWipe(content, old, canFault) ==
    (IF canFault THEN { Extracted(FALSE, NoDir, TRUE) } ELSE {})
    \cup (IF canFault /\ old # NoDir THEN { Extracted(FALSE, old, TRUE) } ELSE {})
    \cup { Extracted(FALSE, IF old = NoDir THEN EmptyTree ELSE old, FALSE) }
    \cup (IF content = NoFile \/ ArchiveTree(content) = NotZip THEN {}
          ELSE { Extracted(FALSE, Overlay(old, t), FALSE) : t \in Partials(ArchiveTree(content)) }
               \cup { Extracted(TRUE, Overlay(old, ArchiveTree(content)), FALSE) })

\* JavaManager::extractJavaArchive: the possible (return value, tree of
\* extractionDir afterwards) for an archive file with this content and an
\* extractionDir that held old; canFault tells whether the file system may
\* refuse an operation
extractJavaArchive(content, old, canFault) ==
    \* remove_all or create_directories throws; the handler removes the directory
    (IF canFault THEN { Extracted(FALSE, NoDir, TRUE) } ELSE {})
    \* ... and the handler's remove_all fails as well
    \cup (IF canFault /\ old # NoDir THEN { Extracted(FALSE, old, TRUE) } ELSE {})
    \* mz_zip_reader_create or mz_zip_reader_open_file fails
    \cup { Extracted(FALSE, EmptyTree, FALSE) }
    \cup (IF content = NoFile \/ ArchiveTree(content) = NotZip THEN {}
          ELSE \* mz_zip_reader_extract_all_cb reports an error
               { Extracted(FALSE, t, FALSE) : t \in Partials(ArchiveTree(content)) }
               \* every entry was written into the directory just created
               \cup { Extracted(TRUE, Overlay(EmptyTree, ArchiveTree(content)), FALSE) })

\* ---------------------------------------------------------------- upstream

\* a JSON member: absent, present with a value that is no string, or a string
Missing == [t |-> "missing"]

NotString == [t |-> "number"]

String(v) == [t |-> "string", v |-> v]

Unsigned(n) == [t |-> "unsigned", v |-> n]

IsPresent(f) == f.t # "missing"

Url(filename) == <<"https:", "/", "/", "host", "/">> \o filename

Response(status, body) == [status |-> status, body |-> body]

Unparsable == [kind |-> "unparsable"]

Object == [kind |-> "object"]

Array(elems) == [kind |-> "array", elems |-> elems]

\* an element of the Adoptium response: binary.package.{link, name, checksum}
Build(link, name, checksum) == [link |-> link, name |-> name, checksum |-> checksum]

\* what a fetcher ends with: nothing, an exception, or a candidate archive
NotFound == [kind |-> "none"]

Throws == [kind |-> "throw"]

Candidate(url, filename, expected) ==
    [kind |-> "cand", url |-> url, filename |-> filename, expected |-> expected]

\* variant: the fetcher reads the body whatever the status of the response
AdoptiumCandidateAnyStatus(resp) ==
    IF resp.body.kind # "array" THEN NotFound
    ELSE IF resp.body.elems = <<>> THEN NotFound
    ELSE LET firstBuild == resp.body.elems[1]
         IN  IF ~IsPresent(firstBuild.link) \/ ~IsPresent(firstBuild.name)
                \/ ~IsPresent(firstBuild.checksum)
             THEN NotFound
             ELSE IF firstBuild.link.t # "string" \/ firstBuild.name.t # "string"
                     \/ firstBuild.checksum.t # "string"
             THEN Throws
             ELSE Candidate(firstBuild.link.v, firstBuild.name.v, firstBuild.checksum.v)

\* variant: the fetcher takes the first element of the array that holds the
\* three members
AdoptiumCandidateAnyElement(resp) ==
    IF resp.status # 200 THEN NotFound
    ELSE IF resp.body.kind # "array" THEN NotFound
    ELSE LET elems == resp.body.elems
             complete == { i \in 1..Len(elems) :
                             /\ IsPresent(elems[i].link) /\ IsPresent(elems[i].name)
                             /\ IsPresent(elems[i].checksum) }
         IN  IF complete = {} THEN NotFound
             ELSE LET build == elems[CHOOSE i \in complete : \A j \in complete : i <= j]
                  IN  IF build.link.t # "string" \/ build.name.t # "string"
                         \/ build.checksum.t # "string"
                      THEN Throws
                      ELSE Candidate(build.link.v, build.name.v, build.checksum.v)

\* JavaDownloader::downloadJavaForSpecificVersionAdoptium from the response
\* of the API query to the candidate (JavaDownloader.cpp 195-230)
AdoptiumCandidate(resp) ==
    IF resp.status # 200 THEN NotFound
    ELSE IF resp.body.kind # "array" THEN NotFound
    ELSE IF resp.body.elems = <<>> THEN NotFound
    ELSE LET firstBuild == resp.body.elems[1]
         IN  IF ~IsPresent(firstBuild.link) \/ ~IsPresent(firstBuild.name)
                \/ ~IsPresent(firstBuild.checksum)
             THEN NotFound
             ELSE IF firstBuild.link.t # "string" \/ firstBuild.name.t # "string"
                     \/ firstBuild.checksum.t # "string"
             THEN Throws
             ELSE Candidate(firstBuild.link.v, firstBuild.name.v, firstBuild.checksum.v)

\* an entry of manifest[osArchKey][component]: version.name, manifest.url,
\* manifest.sha1
Entry(name, url, sha1) == [name |-> name, url |-> url, sha1 |-> sha1]

\* the Mojang manifest document: the one platform key and component it lists
Manifest(key, component, entries) ==
    [kind |-> "manifest", key |-> key, component |-> component, entries |-> entries]

\* the major version the Mojang fetcher reads from an entry
\* (JavaDownloader.cpp 75-97)
EntryMajorVersion(entry) ==
    IF entry.name.t = "unsigned" THEN entry.name.v
    ELSE IF entry.name.t = "string"
    THEN IF stoul(entry.name.v) # NoValue THEN stoul(entry.name.v)
         ELSE LET dot_pos == find(entry.name.v, ".")
                  parsed == IF dot_pos # npos
                            THEN stoul(SubSeq(entry.name.v, 1, dot_pos - 1))
                            ELSE stoul(entry.name.v)
              IN  IF parsed = NoValue THEN 0 ELSE parsed
    ELSE 0

\* the text after the last '/' of a URL (JavaDownloader.cpp 123)
FilenameOf(url) == SubSeq(url, rfind(url, "/") + 1, Len(url))

RECURSIVE SelectEntry(_, _, _)
\* the scan of the entries from position i on (JavaDownloader.cpp 74-112)
SelectEntry(requiredJava, entries, i) ==
    IF i > Len(entries) THEN NotFound
    ELSE IF /\ EntryMajorVersion(entries[i]) = requiredJava.majorVersion
            /\ IsPresent(entries[i].url) /\ IsPresent(entries[i].sha1)
         THEN IF entries[i].url.t # "string" \/ entries[i].sha1.t # "string"
              THEN Throws
              ELSE IF entries[i].url.v = <<>> THEN NotFound
              ELSE Candidate(entries[i].url.v, FilenameOf(entries[i].url.v),
                             entries[i].sha1.v)
         ELSE SelectEntry(requiredJava, entries, i + 1)

\* the key the Mojang fetcher takes for "no key" (JavaDownloader.cpp 57)
UnknownOsArchKey == "unknown-os-arch-mojang"

\* variant: the fetcher looks the key up without testing it for the sentinel
MojangCandidateAnyKey(o, a, requiredJava, resp) ==
    IF resp.status # 200 \/ resp.body.kind # "manifest" THEN NotFound
    ELSE IF resp.body.key # getOSStringForJavaManifest(o, a)
            \/ resp.body.component # requiredJava.component
         THEN NotFound
    ELSE SelectEntry(requiredJava, resp.body.entries, 1)

\* variant: the scan of the entries has no break and keeps the last match
MojangCandidateLastMatch(o, a, requiredJava, resp) ==
    IF resp.status # 200 \/ resp.body.kind # "manifest" THEN NotFound
    ELSE IF getOSStringForJavaManifest(o, a) = UnknownOsArchKey THEN NotFound
    ELSE IF resp.body.key # getOSStringForJavaManifest(o, a)
            \/ resp.body.component # requiredJava.component
         THEN NotFound
    ELSE LET es == resp.body.entries
             matches == { i \in 1..Len(es) :
                            /\ EntryMajorVersion(es[i]) = requiredJava.majorVersion
                            /\ IsPresent(es[i].url) /\ IsPresent(es[i].sha1) }
         IN  IF matches = {} THEN NotFound
             ELSE LET last == CHOOSE i \in matches : \A j \in matches : j <= i
                  IN  IF es[last].url.t # "string" \/ es[last].sha1.t # "string"
                      THEN Throws
                      ELSE IF es[last].url.v = <<>> THEN NotFound
                      ELSE Candidate(es[last].url.v, FilenameOf(es[last].url.v),
                                     es[last].sha1.v)

\* JavaDownloader::downloadJavaForMinecraftVersionMojang from the response to
\* the manifest request to the candidate (JavaDownloader.cpp 48-112)
MojangCandidate(o, a, requiredJava, resp) ==
    IF resp.status # 200 \/ resp.body.kind # "manifest" THEN NotFound
    ELSE IF getOSStringForJavaManifest(o, a) = UnknownOsArchKey THEN NotFound
    ELSE IF resp.body.key # getOSStringForJavaManifest(o, a)
            \/ resp.body.component # requiredJava.component
         THEN NotFound
    ELSE SelectEntry(requiredJava, resp.body.entries, 1)

\* what a transfer into an opened file may end with
Transfer(status, error, content) ==
    [kind |-> "transfer", status |-> status, error |-> error, content |-> content]

OpenFails == [kind |-> "open_fail"]

Downloaded(status, error, file) == [status |-> status, error |-> error, file |-> file]

\* Http::Download(filepath, url): the response and the content of filepath
\* afterwards, for a file that held old; removable tells whether
\* std::filesystem::remove succeeds on it
Download(old, outcome, removable) ==
    IF outcome.kind = "open_fail" THEN Downloaded(0, TRUE, old)
    ELSE IF outcome.error \/ outcome.status < 200 \/ outcome.status >= 300
         THEN Downloaded(outcome.status, outcome.error,
                         IF removable THEN NoFile ELSE outcome.content)
         ELSE Downloaded(outcome.status, outcome.error, outcome.content)

\* ------------------------------------------------------------------- state

VARIABLES
    os,                  \* Utils::getCurrentOS() of the build
    arch,                \* Utils::getCurrentArch() of the build
    dirs,                \* the tree of each directory of the runtime root
    dlDirs,              \* the sources whose _downloads/{source} directory exists
    files,               \* the content of _downloads/{source}/{filename}
    m_availableRuntimes, \* JavaManager's registry
    c,                   \* per calling thread: the ensure call it is in
    hist,                \* what this JavaManager has returned so far
    ncalls,              \* ensure calls made
    nrestarts,           \* JavaManager objects constructed after the first
    nfaults,             \* file-system faults so far
    javaVersion          \* the javaVersion of the Minecraft version being launched

vars == <<os, arch, dirs, dlDirs, files, m_availableRuntimes, c, hist, ncalls, nrestarts,
          nfaults, javaVersion>>

NoResult == [kind |-> "none"]

Absent == [kind |-> "absent"]

Threw == [kind |-> "throw"]

Record(rt) == [kind |-> "record", rt |-> rt]

Snapshot == [dirs |-> dirs, dlDirs |-> dlDirs, files |-> files,
             registry |-> m_availableRuntimes]

NoSnapshot == [absent |-> TRUE]

\* a thread that is in no call
IdleCall ==
    [pc |-> "idle", version |-> NoJavaVersion, cand |-> NotFound, path |-> NoPath,
     sourceApi |-> "unknown", result |-> NoResult, events |-> <<>>,
     snap |-> NoSnapshot, rmFailed |-> FALSE]

NoCall == [absent |-> TRUE]

\* the previous call of this JavaManager: what it asked for and how it ended
LastCall(version, kind) == [version |-> version, kind |-> kind]

\* a JavaManager that has answered no call yet
NewHist == [returned |-> {}, last |-> NoCall]

EmptyDisk == [n \in DirNames |-> NoDir]

\* the runtime roots a JavaManager may be constructed over
InitDisks ==
    { EmptyDisk,
      [EmptyDisk EXCEPT ![getExtractionPathForRuntime(JavaVersion(Gamma, 17))] = NestedTree,
                        ![LegacyName] = FlatTree],
      [EmptyDisk EXCEPT ![getExtractionPathForRuntime(JavaVersion(MyJre, 17))] = NestedPartialTree] }

NoFiles == [f \in Sources \X FileNames |-> NoFile]

\* JavaManager::JavaManager over a root the Config constructor has prepared
Init ==
    /\ \E p \in Platforms : os = p[1] /\ arch = p[2]
    /\ dirs \in InitDisks
    /\ dlDirs \in {Sources} \cup (IF dirs = EmptyDisk THEN {{}} ELSE {})
    /\ files = NoFiles
    /\ \E entries \in Orderings(RootEntries(dirs, dlDirs)) :
          m_availableRuntimes = scanForExistingRuntimes(os, dirs, dlDirs, entries)
    /\ c = [t \in {1} |-> IdleCall]
    /\ hist = NewHist
    /\ ncalls = 0
    /\ nrestarts = 0
    /\ nfaults = 0
    /\ javaVersion \in Requirements

\* the I/O a call has done so far, as <<source, operation>> pairs
Log(call, src, op) == Append(call.events, <<src, op>>)

\* variant: the lookup compares the record's source with the component
CacheHitOnSource(registry, requiredJava) ==
    IF \E i \in 1..Len(registry) :
          /\ registry[i].source = requiredJava.component
          /\ registry[i].majorVersion = requiredJava.majorVersion
    THEN CHOOSE i \in 1..Len(registry) :
          /\ registry[i].source = requiredJava.component
          /\ registry[i].majorVersion = requiredJava.majorVersion
    ELSE 0

\* variant: the lookup compares the major version alone
CacheHitAnyComponent(registry, requiredJava) ==
    IF \E i \in 1..Len(registry) : registry[i].majorVersion = requiredJava.majorVersion
    THEN CHOOSE i \in 1..Len(registry) :
          /\ registry[i].majorVersion = requiredJava.majorVersion
          /\ \A j \in 1..(i - 1) : registry[j].majorVersion # requiredJava.majorVersion
    ELSE 0

\* position of the first registry record for the requirement, 0 when none
\* (JavaManager.cpp 256-261)
CacheHit(registry, requiredJava) ==
    IF \E i \in 1..Len(registry) :
          /\ registry[i].componentName = requiredJava.component
          /\ registry[i].majorVersion = requiredJava.majorVersion
    THEN CHOOSE i \in 1..Len(registry) :
          /\ registry[i].componentName = requiredJava.component
          /\ registry[i].majorVersion = requiredJava.majorVersion
          /\ \A j \in 1..(i - 1) :
                ~(/\ registry[j].componentName = requiredJava.component
                  /\ registry[j].majorVersion = requiredJava.majorVersion)
    ELSE 0

\* variant: no early return for a version without javaVersion
EnsureEntryUnchecked(call, version, registry, snapshot) ==
    [call EXCEPT !.version = version, !.snap = snapshot, !.pc = "adoptium.query"]

\* variant: the Mojang manifest is tried first
EnsureEntryMojangFirst(call, version, registry, snapshot) ==
    LET started == [call EXCEPT !.version = version, !.snap = snapshot]
    IN  IF version = NoJavaVersion
        THEN [started EXCEPT !.pc = "done", !.result = Absent]
        ELSE IF CacheHit(registry, version) # 0
        THEN [started EXCEPT !.pc = "done",
                             !.result = Record(registry[CacheHit(registry, version)])]
        ELSE [started EXCEPT !.pc = "mojang.query"]

\* JavaManager::ensureJavaForMinecraftVersion, entry to the cache check
\* (JavaManager.cpp 246-263)
EnsureEntry(call, version, registry, snapshot) ==
    LET started == [call EXCEPT !.version = version, !.snap = snapshot]
    IN  IF version = NoJavaVersion
        THEN [started EXCEPT !.pc = "done", !.result = Absent]
        ELSE IF CacheHit(registry, version) # 0
        THEN [started EXCEPT !.pc = "done",
                             !.result = Record(registry[CacheHit(registry, version)])]
        ELSE [started EXCEPT !.pc = "adoptium.query"]

\* a caller passes the version being launched, or one without a javaVersion
ensureJavaForMinecraftVersion(t, version) ==
    /\ c[t].pc = "idle"
    /\ version \in {javaVersion, NoJavaVersion}
    /\ ncalls < MaxCalls
    /\ ncalls' = ncalls + 1
    /\ c' = [c EXCEPT ![t] = EnsureEntry(IdleCall, version, m_availableRuntimes, Snapshot)]
    /\ UNCHANGED <<os, arch, dirs, dlDirs, files, m_availableRuntimes, hist, nrestarts, nfaults, javaVersion>>

\* variant: an empty path from either downloader ends the call
EmptyPathFatal(call, src) ==
    [call EXCEPT !.pc = "done", !.cand = NotFound, !.result = Absent]

\* variant: after Mojang gave nothing, Adoptium is asked again
EmptyPathRetrying(call, src) ==
    IF src = "adoptium"
    THEN [call EXCEPT !.pc = "mojang.query", !.cand = NotFound]
    ELSE [call EXCEPT !.pc = "adoptium.query", !.cand = NotFound]

\* a downloader returned the empty path (JavaManager.cpp 270-284): ensure
\* goes on to Mojang after Adoptium, and returns absent after Mojang
EmptyPath(call, src) ==
    IF src = "adoptium"
    THEN [call EXCEPT !.pc = "mojang.query", !.cand = NotFound]
    ELSE [call EXCEPT !.pc = "done", !.cand = NotFound, !.result = Absent]

\* variant: sourceApi is not updated for the archive's source
ArchivePathMislabelled(call, src) ==
    [call EXCEPT !.pc = "extract", !.path = <<src, call.cand.filename>>,
                 !.sourceApi = "adoptium"]

\* a downloader returned the path of a verified archive (JavaManager.cpp 270-286)
ArchivePath(call, src) ==
    [call EXCEPT !.pc = "extract", !.path = <<src, call.cand.filename>>,
                 !.sourceApi = src]

\* an exception leaves ensure
Escapes(call) == [call EXCEPT !.pc = "done", !.result = Threw]

\* the responses the Adoptium API may give to the query
AdoptiumResponses ==
    { Response(0, Unparsable), Response(404, Object), Response(200, Unparsable),
      Response(200, Object), Response(200, Array(<<>>)),
      Response(200, Array(<<Build(String(Url(Str("jre.zip"))), Missing, String("aa")),
                            Build(String(Url(Str("jre.zip"))), String(Str("jre.zip")),
                                  String("aa"))>>)),
      Response(200, Array(<<Build(String(Url(Str("jre.zip"))), NotString, String("aa"))>>)) }
    \cup { Response(200, Array(<<Build(String(Url(Str("jre.zip"))), String(Str("jre.zip")),
                                       String(d))>>)) : d \in ExpectedSha256 }

\* the entries a Mojang manifest may list for a platform and component
MojangEntries ==
    { <<>>,
      <<Entry(String(<<"a", "b", "c">>), String(Url(Str("jre.zip"))), String("1b")),
        Entry(String(<<"1", "7", ".", "0", ".", "1">>), String(Url(Str("jre.zip"))),
              String("1a"))>>,
      <<Entry(Missing, String(Url(Str("jre.zip"))), String("1b"))>>,
      <<Entry(Unsigned(17), NotString, String("1a"))>> }
    \cup { <<Entry(Unsigned(17), String(Url(Str("jre.zip"))), String(d))>> : d \in ExpectedSha1 }

\* the responses Mojang may give to the manifest request
MojangResponses(o, a, requiredJava) ==
    { Response(0, Unparsable), Response(200, Unparsable),
      Response(200, Manifest("gamecore", requiredJava.component, <<>>)),
      Response(200, Manifest(getOSStringForJavaManifest(o, a), Str("jre-legacy"), <<>>)) }
    \cup { Response(200, Manifest(getOSStringForJavaManifest(o, a),
                                  requiredJava.component, es)) : es \in MojangEntries }

\* what a transfer of a candidate archive may end with
TransferOutcomes ==
    { OpenFails, Transfer(0, TRUE, PartialContent), Transfer(404, FALSE, PartialContent),
      Transfer(204, FALSE, PartialContent) }
    \cup { Transfer(200, FALSE, content) : content \in Contents }

\* A step of a downloader maps the call, the download directories and files
\* and the faults so far to the possible situations after the step.
Sit(call, dls, fs, faults) == [call |-> call, dlDirs |-> dls, files |-> fs, nfaults |-> faults]

\* whether a file-system operation may succeed: always, and it may fail while
\* the behaviour has faults left
Oks(faults) == IF faults < MaxFaults THEN BOOLEAN ELSE {TRUE}

\* variant: the API is queried whatever the platform strings are
AdoptiumQueryAnyPlatform(o, a, st) ==
    { LET called == [st.call EXCEPT !.events = Log(st.call, "adoptium", "call")]
          asked == [called EXCEPT !.events = Log(called, "adoptium", "get")]
          found == AdoptiumCandidate(resp)
      IN  [st EXCEPT !.call =
             CASE found.kind = "none" -> EmptyPath(asked, "adoptium")
               [] found.kind = "throw" -> Escapes(asked)
               [] OTHER -> [asked EXCEPT !.pc = "adoptium.download", !.cand = found]]
      : resp \in AdoptiumResponses }

\* JavaDownloader::downloadJavaForSpecificVersionAdoptium up to the candidate,
\* when the API answers a query with resp (JavaDownloader.cpp 165-234)
AdoptiumRun(o, a, st, resp) ==
    LET called == [st.call EXCEPT !.events = Log(st.call, "adoptium", "call")]
        asked == [called EXCEPT !.events = Log(called, "adoptium", "get")]
        found == AdoptiumCandidate(resp)
    IN  IF getOSStringForAdoptium(o) = "" \/ getArchStringForAdoptium(a) = ""
        THEN [st EXCEPT !.call = EmptyPath(called, "adoptium")]
        ELSE [st EXCEPT !.call =
                CASE found.kind = "none" -> EmptyPath(asked, "adoptium")
                  [] found.kind = "throw" -> Escapes(asked)
                  [] OTHER -> [asked EXCEPT !.pc = "adoptium.download", !.cand = found]]

\* the situations after the Adoptium fetcher has looked for a candidate
AdoptiumQuery(o, a, st) ==
    { AdoptiumRun(o, a, st, resp) : resp \in AdoptiumResponses }

\* variant: _downloads/mojang is created before the manifest is looked at
MojangQueryMkdirFirst(o, a, st) ==
    { LET called == [st.call EXCEPT !.events = Log(st.call, "mojang", "call")]
          asked == [called EXCEPT !.events = Log(called, "mojang", "get")]
          found == MojangCandidate(o, a, st.call.version, resp)
      IN  [st EXCEPT !.dlDirs = @ \cup {"mojang"},
                     !.call =
             CASE found.kind = "none" -> EmptyPath(asked, "mojang")
               [] found.kind = "throw" -> Escapes(asked)
               [] OTHER -> [asked EXCEPT !.pc = "mojang.download", !.cand = found]]
      : resp \in MojangResponses(o, a, st.call.version) }

\* JavaDownloader::downloadJavaForMinecraftVersionMojang up to the candidate,
\* when the manifest request is answered with resp (JavaDownloader.cpp 38-114)
MojangRun(o, a, st, resp) ==
    LET called == [st.call EXCEPT !.events = Log(st.call, "mojang", "call")]
        asked == [called EXCEPT !.events = Log(called, "mojang", "get")]
        found == MojangCandidate(o, a, st.call.version, resp)
    IN  [st EXCEPT !.call =
           CASE found.kind = "none" -> EmptyPath(asked, "mojang")
             [] found.kind = "throw" -> Escapes(asked)
             [] OTHER -> [asked EXCEPT !.pc = "mojang.download", !.cand = found]]

\* the situations after the Mojang fetcher has looked for a candidate
MojangQuery(o, a, st) ==
    { MojangRun(o, a, st, resp) : resp \in MojangResponses(o, a, st.call.version) }

\* the download step of either downloader for the candidate it found, with
\* what the transfer ends with and whether the directory can be created and
\* the file removed (JavaDownloader.cpp 116-141 and 236-257)
DownloadArchive(src, st, outcome, mkdirOk, removable) ==
    LET file == <<src, st.call.cand.filename>>
        r == Download(st.files[file], outcome, removable)
        asked == [st.call EXCEPT !.events = Log(st.call, src, "download")]
    IN  IF src \notin st.dlDirs /\ ~mkdirOk
        THEN \* create_directories throws
             [st EXCEPT !.call = Escapes(st.call), !.nfaults = @ + 1]
        ELSE IF r.status # 200 \/ r.error
        THEN IF r.file = NoFile \/ removable
             THEN Sit(EmptyPath(asked, src), st.dlDirs \cup {src},
                      [st.files EXCEPT ![file] = NoFile], st.nfaults)
             ELSE \* std::filesystem::remove throws
                  Sit(Escapes([asked EXCEPT !.rmFailed = TRUE]), st.dlDirs \cup {src},
                      [st.files EXCEPT ![file] = r.file], st.nfaults + 1)
        ELSE Sit([asked EXCEPT !.pc = IF src = "adoptium" THEN "adoptium.verify"
                                      ELSE "mojang.verify"],
                 st.dlDirs \cup {src}, [st.files EXCEPT ![file] = r.file], st.nfaults)

\* the situations after the download step
Downloads(src, st) ==
    { DownloadArchive(src, st, outcome, mkdirOk, removable) :
        outcome \in TransferOutcomes, mkdirOk \in Oks(st.nfaults),
        removable \in Oks(st.nfaults) }

\* variant: the digest is computed and never compared with the expected one
VerifyArchiveLax(src, st, actual, removable) ==
    LET file == <<src, st.call.cand.filename>>
    IN  IF actual = ""
        THEN IF removable
             THEN [st EXCEPT !.call = EmptyPath(st.call, src), !.files[file] = NoFile]
             ELSE [st EXCEPT !.call = Escapes([st.call EXCEPT !.rmFailed = TRUE]),
                             !.nfaults = @ + 1]
        ELSE [st EXCEPT !.call = ArchivePath(st.call, src)]

\* the digest check of either downloader on the file it downloaded, with the
\* digest the hasher computed (JavaDownloader.cpp 144-161 and 260-277)
VerifyArchive(src, st, actual, removable) ==
    LET file == <<src, st.call.cand.filename>>
        hashed == IF actual = "" THEN st.call
                  ELSE [st.call EXCEPT !.events =
                          Log(st.call, src,
                              IF actual # st.call.cand.expected THEN "mismatch"
                              ELSE "verified")]
    IN  IF actual = "" \/ actual # st.call.cand.expected
        THEN IF removable
             THEN [st EXCEPT !.call = EmptyPath(hashed, src), !.files[file] = NoFile]
             ELSE \* std::filesystem::remove throws
                  [st EXCEPT !.call = Escapes([hashed EXCEPT !.rmFailed = TRUE]),
                             !.nfaults = @ + 1]
        ELSE [st EXCEPT !.call = ArchivePath(hashed, src)]

\* the situations after the digest check
Verifications(src, st) ==
    { VerifyArchive(src, st,
          IF src = "adoptium"
          THEN calculateFileSHA256(st.files[<<src, st.call.cand.filename>>], readable)
          ELSE calculateFileSHA1(st.files[<<src, st.call.cand.filename>>], readable),
          removable) :
        readable \in BOOLEAN, removable \in Oks(st.nfaults) }

\* a downloader from its call to its return: query, download, verify
DownloaderRuns(src, o, a, st) ==
    UNION { IF s1.call.pc \notin {"adoptium.download", "mojang.download"} THEN {s1}
            ELSE UNION { IF s2.call.pc \notin {"adoptium.verify", "mojang.verify"}
                         THEN {s2}
                         ELSE Verifications(src, s2)
                         : s2 \in Downloads(src, s1) }
            : s1 \in IF src = "adoptium" THEN AdoptiumQuery(o, a, st)
                     ELSE MojangQuery(o, a, st) }

\* ensure calls a downloader and takes what it returns
CallDownloader(t, src) ==
    /\ \E st \in DownloaderRuns(src, os, arch, Sit(c[t], dlDirs, files, nfaults)) :
          /\ c' = [c EXCEPT ![t] = st.call]
          /\ dlDirs' = st.dlDirs
          /\ files' = st.files
          /\ nfaults' = st.nfaults
    /\ UNCHANGED <<os, arch, dirs, m_availableRuntimes, hist, ncalls, nrestarts, javaVersion>>

\* JavaManager.cpp 268-271
downloadJavaForSpecificVersionAdoptium(t) ==
    /\ c[t].pc = "adoptium.query"
    /\ CallDownloader(t, "adoptium")

\* JavaManager.cpp 272-284
downloadJavaForMinecraftVersionMojang(t) ==
    /\ c[t].pc = "mojang.query"
    /\ CallDownloader(t, "mojang")

\* variant: the archive is left where it was downloaded
RemoveArchiveNoop(path, removable) == files

\* std::filesystem::remove(path, ec) on the downloaded archive
RemoveArchive(path, removable) ==
    IF removable THEN [files EXCEPT ![path] = NoFile] ELSE files

\* variant: the failure path returns absent without touching the archive
CleanupLeavesArchive(t, call, faults) ==
    /\ files' = files
    /\ c' = [c EXCEPT ![t] = [call EXCEPT !.pc = "done", !.result = Absent]]
    /\ nfaults' = faults

\* the end of ensure after a failure: the archive is removed if it exists and
\* the call returns absent (JavaManager.cpp 320-329)
Cleanup(t, call, faults) ==
    \E removable \in IF files[call.path] = NoFile THEN {TRUE} ELSE Oks(faults) :
        /\ files' = RemoveArchive(call.path, removable)
        /\ c' = [c EXCEPT ![t] = [call EXCEPT !.pc = "done", !.result = Absent,
                                              !.rmFailed = ~removable]]
        /\ nfaults' = faults + (IF removable THEN 0 ELSE 1)

\* ensure hands the archive to extractJavaArchive (JavaManager.cpp 288-291),
\* and cleans up when that fails (316-329)
Extract(t) ==
    /\ c[t].pc = "extract"
    /\ LET target == getExtractionPathForRuntime(c[t].version)
       IN  \E x \in extractJavaArchive(files[c[t].path], dirs[target], nfaults < MaxFaults) :
              LET extracted == [c[t] EXCEPT !.events = Log(c[t], "local",
                                                           IF x.ok THEN "extracted"
                                                           ELSE "extract.failed")]
                  faults == nfaults + (IF x.faulted THEN 1 ELSE 0)
              IN  /\ dirs' = [dirs EXCEPT ![target] = x.tree]
                  /\ IF x.ok
                     THEN /\ c' = [c EXCEPT ![t] = [extracted EXCEPT !.pc = "locate"]]
                          /\ nfaults' = faults
                          /\ UNCHANGED files
                     ELSE Cleanup(t, extracted, faults)
    /\ UNCHANGED <<os, arch, dlDirs, m_availableRuntimes, hist, ncalls, nrestarts, javaVersion>>

\* variant: the new record takes the place of the registry's records
LocateReplacing(t) ==
    /\ c[t].pc = "locate"
    /\ LET call == c[t]
           target == getExtractionPathForRuntime(call.version)
           javaExePath == findJavaExecutable(os, <<target>>, dirs[target])
           newRuntime == JavaRuntime(parent_path(parent_path(javaExePath)), javaExePath,
                                     call.version.majorVersion, call.version.component,
                                     Str(call.sourceApi))
       IN  IF javaExePath # NoPath
           THEN \E removable \in Oks(nfaults) :
                  /\ m_availableRuntimes' = <<newRuntime>>
                  /\ files' = RemoveArchive(call.path, removable)
                  /\ c' = [c EXCEPT ![t] =
                             [call EXCEPT !.pc = "done", !.result = Record(newRuntime),
                                          !.rmFailed = ~removable]]
                  /\ nfaults' = nfaults + (IF removable THEN 0 ELSE 1)
           ELSE /\ Cleanup(t, call, nfaults)
                /\ UNCHANGED m_availableRuntimes
    /\ UNCHANGED <<os, arch, dirs, dlDirs, hist, ncalls, nrestarts, javaVersion>>

\* ensure looks for the executable and registers the runtime
\* (JavaManager.cpp 292-315), and cleans up when there is none (313-329)
Locate(t) ==
    /\ c[t].pc = "locate"
    /\ LET call == c[t]
           target == getExtractionPathForRuntime(call.version)
           javaExePath == findJavaExecutable(os, <<target>>, dirs[target])
           newRuntime == JavaRuntime(parent_path(parent_path(javaExePath)), javaExePath,
                                     call.version.majorVersion, call.version.component,
                                     Str(call.sourceApi))
       IN  IF javaExePath # NoPath
           THEN \E removable \in Oks(nfaults) :
                  /\ m_availableRuntimes' = Append(m_availableRuntimes, newRuntime)
                  /\ files' = RemoveArchive(call.path, removable)
                  /\ c' = [c EXCEPT ![t] =
                             [call EXCEPT !.pc = "done", !.result = Record(newRuntime),
                                          !.rmFailed = ~removable]]
                  /\ nfaults' = nfaults + (IF removable THEN 0 ELSE 1)
           ELSE /\ Cleanup(t, call, nfaults)
                /\ UNCHANGED m_availableRuntimes
    /\ UNCHANGED <<os, arch, dirs, dlDirs, hist, ncalls, nrestarts, javaVersion>>

\* the call is over: the caller has the result
Return(t) ==
    /\ c[t].pc = "done"
    /\ hist' = [returned |-> hist.returned \cup
                               (IF c[t].result.kind = "record" THEN {c[t].version} ELSE {}),
                last |-> LastCall(c[t].version, c[t].result.kind)]
    /\ c' = [c EXCEPT ![t] = IdleCall]
    /\ UNCHANGED <<os, arch, dirs, dlDirs, files, m_availableRuntimes, ncalls, nrestarts, nfaults, javaVersion>>

\* the process ends and a new JavaManager is constructed over the same root
\* (JavaManager.cpp 28-40)
Restart ==
    /\ \A t \in DOMAIN c : c[t].pc = "idle"
    /\ ncalls > 0
    /\ nrestarts < MaxRestarts
    /\ nrestarts' = nrestarts + 1
    /\ \E entries \in Orderings(RootEntries(dirs, dlDirs)) :
          m_availableRuntimes' = scanForExistingRuntimes(os, dirs, dlDirs, entries)
    /\ hist' = NewHist
    /\ UNCHANGED <<os, arch, dirs, dlDirs, files, c, ncalls, nfaults, javaVersion>>

Next ==
    \/ \E t \in DOMAIN c, version \in Versions : ensureJavaForMinecraftVersion(t, version)
    \/ \E t \in DOMAIN c : downloadJavaForSpecificVersionAdoptium(t)
    \/ \E t \in DOMAIN c : downloadJavaForMinecraftVersionMojang(t)
    \/ \E t \in DOMAIN c : Extract(t)
    \/ \E t \in DOMAIN c : Locate(t)
    \/ \E t \in DOMAIN c : Return(t)
    \/ Restart

Spec == Init /\ [][Next]_vars

\* --------------------------------------------------------------- properties

\* the call did operation op on source src
Did(call, src, op) == \E i \in 1..Len(call.events) : call.events[i] = <<src, op>>

\* the call sent an HTTP request: an API or manifest query, or a file transfer
Requested(call) ==
    \E i \in 1..Len(call.events) : call.events[i][2] \in {"get", "download"}

\* the call ran extractJavaArchive
Extracting(call) ==
    Did(call, "local", "extracted") \/ Did(call, "local", "extract.failed")

InRegistry(rt) == \E i \in 1..Len(m_availableRuntimes) : m_availableRuntimes[i] = rt

\* the directory ensure extracts into for the call's requirement
Target(call) == getExtractionPathForRuntime(call.version)

\* the digest the downloader of src computes for a file content
DigestFor(src, content) ==
    IF src = "adoptium" THEN calculateFileSHA256(content, TRUE)
    ELSE calculateFileSHA1(content, TRUE)

\* C1: once ensure has returned a record for a requirement, every later call
\* on the same JavaManager with that requirement ends at the cache check: it
\* returns a record of the registry for that requirement, sends no HTTP
\* request, downloads and extracts nothing, and leaves disk and registry as
\* they were.
ResolvedRequirementIsServedFromRegistry ==
    \A t \in DOMAIN c :
        c[t].version \in hist.returned =>
            /\ c[t].pc = "done"
            /\ c[t].result.kind = "record"
            /\ InRegistry(c[t].result.rt)
            /\ c[t].result.rt.componentName = c[t].version.component
            /\ c[t].result.rt.majorVersion = c[t].version.majorVersion
            /\ c[t].events = <<>>
            /\ Snapshot = c[t].snap

\* a second call for a requirement the JavaManager has resolved from Mojang
ResolvedRequirementAskedAgain ==
    \E t \in DOMAIN c :
        /\ c[t].pc = "done"
        /\ c[t].version \in hist.returned
        /\ c[t].result.kind = "record"
        /\ c[t].result.rt.source = Str("mojang")

\* C2 as stated: of two consecutive calls with the same requirement the
\* second sends no HTTP request and extracts nothing, whether the first
\* returned a record or absent.
SecondCallNeverRequestsOrExtracts ==
    \A t \in DOMAIN c :
        (/\ c[t].pc # "idle"
         /\ hist.last # NoCall
         /\ hist.last.kind \in {"record", "absent"}
         /\ nfaults = 0
         /\ c[t].version = hist.last.version) =>
            ~Requested(c[t]) /\ ~Extracting(c[t])

\* C2, amended: of two consecutive calls with the same requirement, when the
\* first returned a record the second sends no HTTP request and extracts
\* nothing.
SecondCallAfterRecordNeverRequestsOrExtracts ==
    \A t \in DOMAIN c :
        (/\ c[t].pc # "idle"
         /\ hist.last # NoCall
         /\ hist.last.kind = "record"
         /\ c[t].version = hist.last.version) =>
            ~Requested(c[t]) /\ ~Extracting(c[t])

\* the call right after one that returned a record for the same requirement
SecondCallAfterRecord ==
    \E t \in DOMAIN c :
        /\ c[t].pc = "done"
        /\ hist.last # NoCall
        /\ hist.last.kind = "record"
        /\ c[t].version = hist.last.version

\* C3: a call for a version without javaVersion ends at once with absent: it
\* sends no HTTP request, writes nothing to disk and leaves the registry as
\* it was.
NoJavaVersionReturnsAbsentAtOnce ==
    \A t \in DOMAIN c :
        (c[t].pc # "idle" /\ c[t].version = NoJavaVersion) =>
            /\ c[t].pc = "done"
            /\ c[t].result = Absent
            /\ c[t].events = <<>>
            /\ Snapshot = c[t].snap

\* a call for a version without javaVersion has ended, on a JavaManager that
\* had a requirement unresolved
NoJavaVersionAsked ==
    \E t \in DOMAIN c :
        /\ c[t].pc = "done"
        /\ c[t].version = NoJavaVersion
        /\ CacheHit(m_availableRuntimes, javaVersion) = 0

SourceNamesTheUpstreamOfTheArchive ==
    \A t \in DOMAIN c :
        /\ (/\ c[t].pc = "done"
            /\ Did(c[t], "adoptium", "call")
            /\ ~Did(c[t], "adoptium", "download")
            /\ Did(c[t], "mojang", "verified")
            /\ Did(c[t], "local", "extracted")
            /\ findJavaExecutable(os, <<Target(c[t])>>, dirs[Target(c[t])]) # NoPath) =>
              /\ c[t].result.kind = "record"
              /\ c[t].result.rt.source = Str("mojang")
        /\ (c[t].pc = "done" /\ c[t].result.kind = "record" /\ c[t].events # <<>>) =>
              /\ c[t].result.rt = m_availableRuntimes[Len(m_availableRuntimes)]
              /\ c[t].result.rt.source = Str(c[t].path[1])
              /\ Did(c[t], c[t].path[1], "verified")
              /\ c[t].result.rt.source = Str("adoptium") => ~Did(c[t], "mojang", "call")

\* Adoptium had no candidate and the call returned the runtime Mojang supplied
MojangRuntimeAfterAdoptiumNotFound ==
    \E t \in DOMAIN c :
        /\ c[t].pc = "done"
        /\ Did(c[t], "adoptium", "get")
        /\ ~Did(c[t], "adoptium", "download")
        /\ c[t].result.kind = "record"
        /\ c[t].result.rt.source = Str("mojang")
        /\ c[t].events # <<>>

\* C8: when both Adoptium and Mojang return not-found, ensure returns absent,
\* creates no directory, writes no file and leaves the registry as it was.
BothNotFoundChangesNothing ==
    \A t \in DOMAIN c :
        (/\ c[t].pc = "done"
         /\ Did(c[t], "adoptium", "call")
         /\ Did(c[t], "mojang", "call")
         /\ ~Did(c[t], "adoptium", "download")
         /\ ~Did(c[t], "mojang", "download")
         /\ c[t].result # Threw) =>
            /\ c[t].result = Absent
            /\ Snapshot = c[t].snap

\* both sources were asked over HTTP and had no candidate, on a root whose
\* _downloads directories do not exist
BothNotFoundOnBareRoot ==
    \E t \in DOMAIN c :
        /\ c[t].pc = "done"
        /\ Did(c[t], "adoptium", "get")
        /\ Did(c[t], "mojang", "get")
        /\ ~Did(c[t], "adoptium", "download")
        /\ ~Did(c[t], "mojang", "download")
        /\ c[t].result = Absent
        /\ dlDirs = {}

\* C9: when ensure returns a record or absent and no removal of a file
\* failed, no archive the call downloaded remains in _downloads/adoptium or
\* _downloads/mojang.
NoArchiveRemainsAfterReturn ==
    \A t \in DOMAIN c :
        (c[t].pc = "done" /\ c[t].result.kind \in {"record", "absent"} /\ ~c[t].rmFailed) =>
            \A file \in DOMAIN files :
                IF Did(c[t], file[1], "download")
                THEN files[file] = NoFile
                ELSE files[file] = c[t].snap.files[file]

\* a call that downloaded, verified and extracted an archive has returned
ReturnedAfterExtraction ==
    \E t \in DOMAIN c :
        /\ c[t].pc = "done"
        /\ ~c[t].rmFailed
        /\ Extracting(c[t])
        /\ \A file \in DOMAIN files : files[file] = NoFile

\* C10: when extraction fails, ensure returns absent and the extraction
\* target directory does not exist afterwards (looked at in behaviours
\* where the file system refused nothing).
FailedExtractionLeavesNoDirectory ==
    \A t \in DOMAIN c :
        (c[t].pc = "done" /\ Did(c[t], "local", "extract.failed") /\ nfaults = 0) =>
            /\ c[t].result = Absent
            /\ dirs[Target(c[t])] = NoDir

\* C11: ensure is total over the failures of the pipeline: whatever the
\* upstreams answer and whatever the file system refuses, a call that has
\* ended has returned a record or absent; no exception has left it.
EveryCallReturnsRecordOrAbsent ==
    \A t \in DOMAIN c :
        c[t].pc = "done" => c[t].result.kind \in {"record", "absent"}

\* C12: registry uniqueness: after the startup scan and after any sequence of
\* ensure calls the registry holds at most one record for each pair of
\* componentName and majorVersion.
RegistryHoldsOneRecordPerRequirement ==
    \A i, j \in 1..Len(m_availableRuntimes) :
        (/\ m_availableRuntimes[i].componentName = m_availableRuntimes[j].componentName
         /\ m_availableRuntimes[i].majorVersion = m_availableRuntimes[j].majorVersion) =>
            i = j

\* the registry holds a record that ensure registered for the requirement,
\* in the directory named component + "_" + majorVersion
ResolvedByEnsure(registry, requiredJava) ==
    \E i \in 1..Len(registry) :
        /\ registry[i].componentName = requiredJava.component
        /\ registry[i].majorVersion = requiredJava.majorVersion
        /\ registry[i].source \in {Str(src) : src \in Sources}
        /\ registry[i].javaExecutablePath[1] =
              requiredJava.component \o Str("_") \o to_string(requiredJava.majorVersion)

\* C13: directory naming round-trip: when ensure has resolved a requirement
\* into the directory component + "_" + majorVersion, the startup scan of a
\* new JavaManager over the same runtime root reconstructs a record with that
\* componentName and majorVersion, so that the next ensure for the
\* requirement is a cache hit.
RescanReconstructsResolvedRequirement ==
    [][(/\ nrestarts' = nrestarts + 1
        /\ ResolvedByEnsure(m_availableRuntimes, javaVersion)) =>
            CacheHit(m_availableRuntimes', javaVersion) # 0]_vars

\* ---------------------------------------------------------- concurrent callers

\* the threads of a host that calls ensure on one JavaManager from two threads
Threads == {1, 2}

\* a JavaManager over an empty runtime root, shared by the threads, which
\* both launch the same version
InitConcurrent ==
    /\ os = "LINUX"
    /\ arch = "X64"
    /\ dirs = EmptyDisk
    /\ dlDirs = Sources
    /\ files = NoFiles
    /\ m_availableRuntimes = scanForExistingRuntimes(os, dirs, dlDirs, <<>>)
    /\ c = [t \in Threads |-> IdleCall]
    /\ hist = NewHist
    /\ ncalls = 0
    /\ nrestarts = 0
    /\ nfaults = 0
    /\ javaVersion = JavaVersion(Gamma, 17)

\* the steps of the calls interleave; the JavaManager lives on
NextConcurrent ==
    \/ \E t \in DOMAIN c, version \in Versions : ensureJavaForMinecraftVersion(t, version)
    \/ \E t \in DOMAIN c : downloadJavaForSpecificVersionAdoptium(t)
    \/ \E t \in DOMAIN c : downloadJavaForMinecraftVersionMojang(t)
    \/ \E t \in DOMAIN c : Extract(t)
    \/ \E t \in DOMAIN c : Locate(t)
    \/ \E t \in DOMAIN c : Return(t)

SpecConcurrent == InitConcurrent /\ [][NextConcurrent]_vars

\* the executable a record names is a regular file on disk
ExecutableOnDisk(p) ==
    /\ Len(p) \in {3, 4}
    /\ p[1] \in DOMAIN dirs
    /\ dirs[p[1]] # NoDir
    /\ p[Len(p) - 1] = Str("bin")
    /\ IF Len(p) = 3
       THEN dirs[p[1]].root.bin /\ \E e \in dirs[p[1]].root.exes : p[3] = Str(e)
       ELSE \E i \in 1..Len(dirs[p[1]].subs) :
               /\ dirs[p[1]].subs[i].name = p[2]
               /\ dirs[p[1]].subs[i].bin
               /\ \E e \in dirs[p[1]].subs[i].exes : p[4] = Str(e)

\* the directory holds every entry of some archive
CompletelyExtracted(dirName) ==
    \E content \in Contents : dirs[dirName] = ArchiveTree(content)

\* C14: two ensure calls for the same requirement that run concurrently on
\* one JavaManager do not corrupt: once both have ended, every record they
\* returned or registered names an executable that exists inside a completely
\* extracted target directory (looked at in behaviours where the file system
\* refused nothing).
ConcurrentCallsLeaveUsableRecords ==
    (/\ nfaults = 0
     /\ \A t \in DOMAIN c : c[t].pc = "done" /\ c[t].version = javaVersion) =>
        /\ \A i \in 1..Len(m_availableRuntimes) :
              /\ ExecutableOnDisk(m_availableRuntimes[i].javaExecutablePath)
              /\ CompletelyExtracted(m_availableRuntimes[i].javaExecutablePath[1])
        /\ \A t \in DOMAIN c :
              c[t].result.kind = "record" =>
                  /\ ExecutableOnDisk(c[t].result.rt.javaExecutablePath)
                  /\ CompletelyExtracted(c[t].result.rt.javaExecutablePath[1])

\* ------------------------------------------------------ the digest check alone

\* the pc of a call whose downloader is about to verify the file it downloaded
VerifyPc(src) == IF src = "adoptium" THEN "adoptium.verify" ELSE "mojang.verify"

\* a call inside the downloader of src, which has found a candidate with this
\* expected digest and has downloaded its archive
DownloadedCall(src, version, expected) ==
    [IdleCall EXCEPT !.pc = VerifyPc(src),
                     !.version = version,
                     !.cand = Candidate(Url(Str("jre.zip")), Str("jre.zip"), expected),
                     !.events = (IF src = "adoptium" THEN <<>>
                                 ELSE <<<<"adoptium", "call">>, <<"adoptium", "get">>>>)
                                \o <<<<src, "call">>, <<src, "get">>, <<src, "download">>>>,
                     !.snap = [dirs |-> EmptyDisk, dlDirs |-> Sources, files |-> NoFiles,
                               registry |-> <<>>]]

\* every archive a transfer may deliver, with every digest its source may
\* have announced for it
InitVerify ==
    /\ \E p \in Platforms : os = p[1] /\ arch = p[2]
    /\ dirs = EmptyDisk
    /\ dlDirs = Sources
    /\ m_availableRuntimes = <<>>
    /\ hist = NewHist
    /\ ncalls = 1
    /\ nrestarts = 0
    /\ nfaults \in 0..MaxFaults
    /\ javaVersion \in Requirements
    /\ \E src \in Sources, content \in Contents :
          \E expected \in IF src = "adoptium" THEN ExpectedSha256 ELSE ExpectedSha1 :
              /\ files = [NoFiles EXCEPT ![<<src, Str("jre.zip")>>] = content]
              /\ c = [t \in {1} |-> DownloadedCall(src, javaVersion, expected)]

\* the downloader hashes the file and compares
\* (JavaDownloader.cpp 144-161 and 260-277)
VerifyDownloaded(t) ==
    /\ \E src \in Sources :
          /\ c[t].pc = VerifyPc(src)
          /\ \E st \in Verifications(src, Sit(c[t], dlDirs, files, nfaults)) :
                /\ c' = [c EXCEPT ![t] = st.call]
                /\ dlDirs' = st.dlDirs
                /\ files' = st.files
                /\ nfaults' = st.nfaults
    /\ UNCHANGED <<os, arch, dirs, m_availableRuntimes, hist, ncalls, nrestarts, javaVersion>>

NextVerify == \E t \in DOMAIN c : VerifyDownloaded(t)

SpecVerify == InitVerify /\ [][NextVerify]_vars

\* a hex digest with its letters in lower case
LowerCase(digest) ==
    CASE digest = "AA" -> "aa"
      [] OTHER -> digest

\* C15: digest verification compares case-insensitively: a downloaded archive
\* whose computed hex digest equals the expected digest up to letter case
\* passes verification and is returned for extraction (looked at in steps
\* where the digest was computed and the file system refused nothing).
DigestEqualUpToCasePasses ==
    [][\A t \in DOMAIN c : \A src \in Sources :
          (/\ c[t].pc = VerifyPc(src)
           /\ LowerCase(DigestFor(src, files[<<src, c[t].cand.filename>>]))
                 = LowerCase(c[t].cand.expected)
           /\ c'[t].events # c[t].events
           /\ nfaults' = nfaults) =>
              /\ c'[t].pc = "extract"
              /\ c'[t].path = <<src, c[t].cand.filename>>
              /\ files'[c'[t].path] = files[c'[t].path]]_vars

\* ---------------------------------------------------- the download step alone

\* the pc of a call whose downloader is about to download its candidate
DownloadPc(src) == IF src = "adoptium" THEN "adoptium.download" ELSE "mojang.download"

\* a call inside the downloader of src, which has found a candidate
CandidateCall(src, version, expected) ==
    [DownloadedCall(src, version, expected) EXCEPT
        !.pc = DownloadPc(src),
        !.events = SubSeq(@, 1, Len(@) - 1)]

\* every candidate, over download directories that exist or not and a
\* download path that is free or holds what an earlier call left there
InitDownload ==
    /\ \E p \in Platforms : os = p[1] /\ arch = p[2]
    /\ dirs = EmptyDisk
    /\ m_availableRuntimes = <<>>
    /\ hist = NewHist
    /\ ncalls = 1
    /\ nrestarts = 0
    /\ nfaults \in 0..MaxFaults
    /\ javaVersion \in Requirements
    /\ \E src \in Sources, old \in {NoFile, PartialContent} :
          \E expected \in IF src = "adoptium" THEN ExpectedSha256 ELSE ExpectedSha1 :
              /\ dlDirs \in IF old = NoFile THEN {Sources, Sources \ {src}} ELSE {Sources}
              /\ files = [NoFiles EXCEPT ![<<src, Str("jre.zip")>>] = old]
              /\ c = [t \in {1} |-> CandidateCall(src, javaVersion, expected)]

\* the downloader of src transfers the candidate, the transfer ending with
\* outcome (JavaDownloader.cpp 116-141 and 236-257)
DownloadCandidate(t, src, outcome) ==
    /\ c[t].pc = DownloadPc(src)
    /\ \E mkdirOk \in Oks(nfaults), removable \in Oks(nfaults) :
          LET st == DownloadArchive(src, Sit(c[t], dlDirs, files, nfaults), outcome,
                                    mkdirOk, removable)
          IN  /\ c' = [c EXCEPT ![t] = st.call]
              /\ dlDirs' = st.dlDirs
              /\ files' = st.files
              /\ nfaults' = st.nfaults
    /\ UNCHANGED <<os, arch, dirs, m_availableRuntimes, hist, ncalls, nrestarts, javaVersion>>

NextDownload ==
    \E t \in DOMAIN c, src \in Sources, outcome \in TransferOutcomes :
        DownloadCandidate(t, src, outcome)

SpecDownload == InitDownload /\ [][NextDownload]_vars

\* the transfers that end with a transport error or a status outside 2xx
FailedTransfers ==
    { outcome \in TransferOutcomes :
        /\ outcome.kind = "transfer"
        /\ outcome.error \/ outcome.status < 200 \/ outcome.status >= 300 }

\* C16: a download of a candidate archive that ends with a non-2xx status or
\* a transport error yields no archive from that source: the downloader
\* returns the empty path (ensure goes on to Mojang, or returns absent), no
\* file remains at the download path, and neither the digest check nor the
\* extraction is run on it.
FailedDownloadYieldsNoArchive ==
    [][\A t \in DOMAIN c : \A src \in Sources : \A outcome \in FailedTransfers :
          (/\ DownloadCandidate(t, src, outcome)
           /\ src \in dlDirs) =>
              /\ c'[t] = EmptyPath([c[t] EXCEPT !.events = Log(c[t], src, "download")], src)
              /\ c'[t].path = NoPath
              /\ files'[<<src, c[t].cand.filename>>] = NoFile]_vars

FlatOverNestedTree ==
    Tree(Home(<<>>, TRUE, {"java"}, FALSE, FALSE, FALSE, {}),
         <<Home(JdkName, TRUE, {"java"}, TRUE, TRUE, FALSE, {})>>)

\* the trees an archive may have been extracted to
ExtractedTrees ==
    { NestedTree, NestedPartialTree, FlatTree, FlatOverNestedTree, MacTree, NoJavaTree,
      EmptyTree }

\* a call whose archive from src has been verified and extracted
ExtractedCall(src, version) ==
    [DownloadedCall(src, version, DigestFor(src, "jre")) EXCEPT
        !.pc = "locate",
        !.path = <<src, Str("jre.zip")>>,
        !.sourceApi = src,
        !.events = @ \o <<<<src, "verified">>, <<"local", "extracted">>>>]

\* ensure after extractJavaArchive has returned true, for every tree the
\* archive may have held, on every operating system
InitLocate ==
    /\ os \in OperatingSystems
    /\ arch = "X64"
    /\ dlDirs = Sources
    /\ m_availableRuntimes = <<>>
    /\ hist = NewHist
    /\ ncalls = 1
    /\ nrestarts = 0
    /\ nfaults \in 0..MaxFaults
    /\ javaVersion \in Requirements
    /\ \E src \in Sources, tree \in ExtractedTrees :
          /\ dirs = [EmptyDisk EXCEPT ![getExtractionPathForRuntime(javaVersion)] = tree]
          /\ files = [NoFiles EXCEPT ![<<src, Str("jre.zip")>>] = "jre"]
          /\ c = [t \in {1} |-> ExtractedCall(src, javaVersion)]

NextLocate == \E t \in DOMAIN c : Locate(t)

SpecLocate == InitLocate /\ [][NextLocate]_vars

\* whether the directory at path p, the extraction directory or a
\* subdirectory of it, has a lib subdirectory
HasLib(p) ==
    /\ dirs[p[1]] # NoDir
    /\ IF Len(p) = 1 THEN dirs[p[1]].root.lib
       ELSE \E i \in 1..Len(dirs[p[1]].subs) :
               dirs[p[1]].subs[i].name = p[2] /\ dirs[p[1]].subs[i].lib

\* C18: on registration the record's homePath is the grandparent directory
\* of the executable when that directory has a lib subdirectory, and is the
\* extraction target directory {component}_{majorVersion} when it has none
\* (looked at for executables outside a macOS Contents/Home bundle).
HomePathFallsBackWithoutLib ==
    \A t \in DOMAIN c :
        (/\ c[t].pc = "done"
         /\ c[t].result.kind = "record"
         /\ Len(c[t].result.rt.javaExecutablePath) \in {3, 4}) =>
            LET rt == c[t].result.rt
                grandparent == parent_path(parent_path(rt.javaExecutablePath))
            IN  /\ InRegistry(rt)
                /\ rt.homePath = IF HasLib(grandparent) THEN grandparent
                                 ELSE <<Target(c[t])>>

\* C19: executable discovery nesting, on a POSIX system and outside a macOS
\* bundle: when the extraction root directly contains bin/java,
\* findJavaExecutable returns root/bin/java without looking into
\* subdirectories; when the root has no bin and exactly one subdirectory D
\* with D/bin/java, it returns root/D/bin/java. ensure registers the
\* executable found.
DiscoveryPrefersRootThenSingleSubdirectory ==
    \A t \in DOMAIN c :
        (c[t].pc = "done" /\ os # "WINDOWS") =>
            LET root == <<Target(c[t])>>
                tree == dirs[Target(c[t])]
                found == findJavaExecutable(os, root, tree)
            IN  /\ (tree.root.bin /\ "java" \in tree.root.exes
                    /\ ~(os = "MACOS" /\ tree.root.macbin)) =>
                       /\ found = root \o <<Str("bin"), Str("java")>>
                       /\ c[t].result.kind = "record"
                       /\ c[t].result.rt.javaExecutablePath = found
                /\ (~tree.root.bin /\ Len(tree.subs) = 1
                    /\ tree.subs[1].bin /\ "java" \in tree.subs[1].exes
                    /\ ~(os = "MACOS" /\ tree.subs[1].macbin)) =>
                       /\ found = root \o <<tree.subs[1].name, Str("bin"), Str("java")>>
                       /\ c[t].result.kind = "record"
                       /\ c[t].result.rt.javaExecutablePath = found

\* ensure has registered root/bin/java of a root whose only subdirectory
\* holds bin/java as well
RootExecutableChosenOverSubdirectory ==
    \E t \in DOMAIN c :
        /\ c[t].pc = "done"
        /\ dirs[Target(c[t])] = FlatOverNestedTree
        /\ c[t].result.kind = "record"
        /\ c[t].result.rt.javaExecutablePath = <<Target(c[t]), Str("bin"), Str("java")>>

\* C20: on a platform for which the Adoptium OS string or architecture
\* string is empty, ensure sends no request to the Adoptium API, transfers
\* nothing from Adoptium, and goes on to the Mojang manifest attempt.
NoAdoptiumRequestOnUnknownPlatform ==
    (getOSStringForAdoptium(os) = "" \/ getArchStringForAdoptium(arch) = "") =>
        \A t \in DOMAIN c :
            /\ ~Did(c[t], "adoptium", "get")
            /\ ~Did(c[t], "adoptium", "download")
            /\ Did(c[t], "adoptium", "call") =>
                  c[t].pc = "mojang.query" \/ Did(c[t], "mojang", "get")
            /\ (c[t].pc = "done" /\ c[t].events # <<>>) =>
                  /\ c[t].events[1] = <<"adoptium", "call">>
                  /\ c[t].events[2] = <<"mojang", "call">>
                  /\ c[t].events[3] = <<"mojang", "get">>

\* a call on a platform with a known OS and an unknown architecture has
\* skipped Adoptium and asked Mojang for its manifest
MojangAskedOnUnknownArchitecture ==
    \E t \in DOMAIN c :
        /\ getOSStringForAdoptium(os) # ""
        /\ getArchStringForAdoptium(arch) = ""
        /\ c[t].pc = "done"
        /\ Did(c[t], "adoptium", "call")
        /\ Did(c[t], "mojang", "get")

\* ------------------------------------------------ the fetchers' choice alone

\* further entry lists a Mojang manifest may hold for a platform and component
MoreMojangEntries ==
    { <<Entry(Unsigned(17), String(Url(Str("first.zip"))), String("1a")),
        Entry(Unsigned(17), String(Url(Str("second.zip"))), String("1c"))>>,
      <<Entry(Unsigned(8), String(Url(Str("first.zip"))), String("1a")),
        Entry(String(<<"1", "7">>), String(Url(Str("second.zip"))), String("1c")),
        Entry(Unsigned(17), String(Url(Str("third.zip"))), String("1e"))>>,
      <<Entry(Unsigned(17), Missing, String("1a")),
        Entry(Unsigned(17), String(Url(Str("second.zip"))), String("1c"))>>,
      <<Entry(Unsigned(17), String(Url(Str("first.zip"))), Missing),
        Entry(String(<<"1", "7", ".", "0", ".", "1">>), String(Url(Str("second.zip"))),
              String("1c"))>>,
      <<Entry(String(<<"v", "1", "7">>), String(Url(Str("first.zip"))), String("1a")),
        Entry(NotString, String(Url(Str("second.zip"))), String("1c")),
        Entry(String(<<".", "1", "7">>), String(Url(Str("third.zip"))), String("1e"))>>,
      <<Entry(String(<<"1", "7", "-", "e", "a">>), String(Url(Str("first.zip"))),
              String("1a"))>>,
      <<Entry(Unsigned(17), String(<<>>), String("1a")),
        Entry(Unsigned(17), String(Url(Str("second.zip"))), String("1c"))>>,
      <<Entry(Missing, String(Url(Str("first.zip"))), String("1a")),
        Entry(Unsigned(17), String(Url(Str("second.zip"))), String("1c"))>> }

\* the answers the manifest request may get, these lists included
MojangManifests(o, a, requiredJava) ==
    MojangResponses(o, a, requiredJava)
    \cup { Response(200, Manifest(getOSStringForJavaManifest(o, a),
                                  requiredJava.component, es)) : es \in MoreMojangEntries }
    \cup { Response(status, Manifest(getOSStringForJavaManifest(o, a), requiredJava.component,
                                     <<Entry(Unsigned(requiredJava.majorVersion),
                                             String(Url(Str("first.zip"))), String("1a"))>>)) :
              status \in {0, 404, 503} }

\* further answers the Adoptium API may give: a first element that lacks a
\* member, followed by a complete one, and two complete ones
MoreAdoptiumResponses ==
    LET complete == Build(String(Url(Str("second.zip"))), String(Str("second.zip")),
                          String("cc"))
    IN  { Response(200, Array(<<Build(Missing, String(Str("first.zip")), String("aa")),
                                complete>>)),
          Response(200, Array(<<Build(String(Url(Str("first.zip"))), String(Str("first.zip")),
                                      Missing), complete>>)),
          Response(200, Array(<<Build(String(Url(Str("first.zip"))), String(Str("first.zip")),
                                      String("aa")), complete>>)),
          Response(500, Array(<<complete>>)) }

AdoptiumAnswers == AdoptiumResponses \cup MoreAdoptiumResponses

\* a call that has missed the cache and is about to ask Adoptium; Mojang is
\* asked when Adoptium gives no archive
QueryCall(version) ==
    [IdleCall EXCEPT
        !.pc = "adoptium.query",
        !.version = version,
        !.snap = [dirs |-> EmptyDisk, dlDirs |-> Sources, files |-> NoFiles,
                  registry |-> <<>>]]

\* the requirements a version descriptor may state: majorVersion is any
\* unsigned int of the JSON document, 0 included (JavaVersion.cpp 9)
QueryRequirements == Requirements \cup { JavaVersion(Gamma, 0) }

\* a cache miss on every build: each operating system with each architecture
InitQuery ==
    /\ os \in OperatingSystems
    /\ arch \in Architectures
    /\ dirs = EmptyDisk
    /\ dlDirs = Sources
    /\ files = NoFiles
    /\ m_availableRuntimes = <<>>
    /\ hist = NewHist
    /\ ncalls = 1
    /\ nrestarts = 0
    /\ nfaults = 0
    /\ javaVersion \in QueryRequirements
    /\ c = [t \in {1} |-> QueryCall(javaVersion)]

\* the Adoptium fetcher gets resp from the API, if it asks at all
AdoptiumSelects(t, resp) ==
    /\ c[t].pc = "adoptium.query"
    /\ LET after == AdoptiumRun(os, arch, Sit(c[t], dlDirs, files, nfaults), resp)
       IN  /\ c' = [c EXCEPT ![t] = after.call]
           /\ dlDirs' = after.dlDirs
           /\ files' = after.files
           /\ nfaults' = after.nfaults
    /\ UNCHANGED <<os, arch, dirs, m_availableRuntimes, hist, ncalls, nrestarts, javaVersion>>

\* the Mojang fetcher gets resp for its manifest request
MojangSelects(t, resp) ==
    /\ c[t].pc = "mojang.query"
    /\ LET after == MojangRun(os, arch, Sit(c[t], dlDirs, files, nfaults), resp)
       IN  /\ c' = [c EXCEPT ![t] = after.call]
           /\ dlDirs' = after.dlDirs
           /\ files' = after.files
           /\ nfaults' = after.nfaults
    /\ UNCHANGED <<os, arch, dirs, m_availableRuntimes, hist, ncalls, nrestarts, javaVersion>>

NextQuery ==
    \/ \E t \in DOMAIN c, resp \in AdoptiumAnswers : AdoptiumSelects(t, resp)
    \/ \E t \in DOMAIN c, resp \in MojangManifests(os, arch, javaVersion) :
          MojangSelects(t, resp)

SpecQuery == InitQuery /\ [][NextQuery]_vars

\* the (OS, Architecture) pairs the switch of getOSStringForJavaManifest names
MojangPairs ==
    { <<"WINDOWS", "X64">>, <<"WINDOWS", "X86">>, <<"WINDOWS", "ARM64">>,
      <<"MACOS", "X64">>, <<"MACOS", "ARM64">>,
      <<"LINUX", "X64">>, <<"LINUX", "ARM64">>, <<"LINUX", "ARM32">> }

\* C21: for every (OS, Architecture) pair getOSStringForJavaManifest returns
\* the sentinel exactly when the pair has no Mojang key; the sentinel is the
\* string the Mojang fetcher tests for; and for such a pair the fetcher
\* returns not-found whatever the manifest holds, choosing no candidate and
\* downloading nothing.
SentinelPlatformGetsNothingFromMojang ==
    /\ getOSStringForJavaManifest(os, arch) = UnknownOsArchMojang
          <=> <<os, arch>> \notin MojangPairs
    /\ UnknownOsArchMojang = UnknownOsArchKey
    /\ \A t \in DOMAIN c :
          (<<os, arch>> \notin MojangPairs /\ Did(c[t], "mojang", "call")) =>
              /\ c[t].pc = "done"
              /\ c[t].result = Absent
              /\ c[t].cand = NotFound
              /\ ~Did(c[t], "mojang", "download")
              /\ files = NoFiles

\* the Mojang fetcher has answered on a build for Linux on an unknown
\* architecture, a pair without a Mojang key
MojangAnsweredOnUnmappedPair ==
    \E t \in DOMAIN c :
        /\ os = "LINUX"
        /\ arch = "UNKNOWN"
        /\ getOSStringForJavaManifest(os, arch) = UnknownOsArchMojang
        /\ Did(c[t], "mojang", "get")
        /\ c[t].result = Absent


\* version.name is an unsigned integer or a string that starts with digits
NameParses(entry) ==
    \/ entry.name.t = "unsigned"
    \/ entry.name.t = "string" /\ stoul(entry.name.v) # NoValue

\* the candidate was taken from this entry of the manifest
TakenFrom(cand, entry) ==
    /\ cand.kind = "cand"
    /\ IsPresent(entry.url)
    /\ entry.url.t = "string"
    /\ cand.url = entry.url.v
    /\ IsPresent(entry.sha1)
    /\ entry.sha1.t = "string"
    /\ cand.expected = entry.sha1.v

\* resp is a manifest that holds the platform's key and the component
HoldsComponent(resp, o, a, requiredJava) ==
    /\ resp.status = 200
    /\ resp.body.kind = "manifest"
    /\ resp.body.key = getOSStringForJavaManifest(o, a)
    /\ resp.body.component = requiredJava.component

\* C28: an entry of the Mojang manifest whose version.name cannot be parsed
\* is skipped: the candidate is never taken from it, and the scan goes on
\* with the entries that follow.
UnparsableEntriesAreSkipped ==
    [][\A t \in DOMAIN c, resp \in MojangManifests(os, arch, javaVersion) :
          (MojangSelects(t, resp) /\ HoldsComponent(resp, os, arch, javaVersion)) =>
              \A i \in 1..Len(resp.body.entries) :
                  ~NameParses(resp.body.entries[i]) =>
                      ~TakenFrom(c'[t].cand, resp.body.entries[i])]_vars


\* the positions of the entries whose major version is the required one
Matching(entries, requiredJava) ==
    { i \in 1..Len(entries) : EntryMajorVersion(entries[i]) = requiredJava.majorVersion }

\* those of them that hold both manifest.url and manifest.sha1
CompleteMatching(entries, requiredJava) ==
    { i \in Matching(entries, requiredJava) :
        IsPresent(entries[i].url) /\ IsPresent(entries[i].sha1) }

Least(S) == CHOOSE i \in S : \A j \in S : i <= j

FirstElementUnusable(resp) ==
    \/ resp.body.kind # "array"
    \/ resp.body.elems = <<>>
    \/ ~IsPresent(resp.body.elems[1].link)
    \/ ~IsPresent(resp.body.elems[1].name)
    \/ ~IsPresent(resp.body.elems[1].checksum)

\* C30: the Adoptium fetcher uses only the first element of the response
\* array: when the response is not an array, is empty, or its first element
\* lacks link, name or checksum, the fetcher returns not-found without
\* downloading anything, even if a later element is complete; and a candidate
\* it does return is the first element's.
AdoptiumUsesOnlyTheFirstElement ==
    [][\A t \in DOMAIN c, resp \in AdoptiumAnswers :
          (/\ AdoptiumSelects(t, resp)
           /\ getOSStringForAdoptium(os) # ""
           /\ getArchStringForAdoptium(arch) # "") =>
              /\ FirstElementUnusable(resp) =>
                    /\ c'[t].cand = NotFound
                    /\ c'[t].pc = "mojang.query"
                    /\ ~Did(c'[t], "adoptium", "download")
                    /\ files' = files
              /\ c'[t].cand.kind = "cand" =>
                    /\ c'[t].cand.url = resp.body.elems[1].link.v
                    /\ c'[t].cand.filename = resp.body.elems[1].name.v
                    /\ c'[t].cand.expected = resp.body.elems[1].checksum.v]_vars

\* the Adoptium API was asked and the fetcher returned not-found: ensure is
\* about to ask Mojang and nothing was downloaded
AdoptiumAnswerGaveNoCandidate ==
    \E t \in DOMAIN c :
        /\ Did(c[t], "adoptium", "get")
        /\ ~Did(c[t], "mojang", "call")
        /\ c[t].pc = "mojang.query"
        /\ c[t].cand = NotFound
        /\ ~Did(c[t], "adoptium", "download")


\* ------------------------------------------------------ the startup scan alone

\* a subdirectory the process may not search: std::filesystem::exists on a
\* path below it fails with EACCES and throws filesystem_error
Unreadable == [unreadable |-> TRUE]

\* names an entry of the runtime root may have
ScanNames ==
    { <<"java-runtime-gamma", "_", "1", "7">>,
      <<"adoptium", "_", "java-runtime-gamma", "_", "1", "7">>,
      <<"my", "_", "jre", "_", "1", "7">>,
      <<"adoptium", "_", "_", "1", "7">>,
      <<"_", "jre", "_", "8">>,
      <<"_", "1", "7">>,
      <<"jre", "1", "7">>,
      <<"jre", "_">>,
      <<"jre", "_", "a", "b", "c">>,
      <<"jre", "_", "0">>,
      <<"unknown", "_", "1", "7">>,
      <<"_", "downloads", "_", "1", "7">> }

\* what an entry of the runtime root may be
ScanContents == {FlatTree, NestedTree, NoJavaTree, RegularFile, Unreadable}

\* the most entries a scanned root holds
MaxEntries == 2

IsDirectory(content) == content # NoDir /\ content # RegularFile

\* an entry whose name does not start with _downloads and that cannot be
\* searched: findJavaExecutable throws on it (JavaManager.cpp 166, 172)
ScanThrows(disk, entries) ==
    \E i \in 1..Len(entries) :
        /\ ~StartsWith(entries[i], DownloadsName)
        /\ disk[entries[i]] = Unreadable

\* the entries of the root the scan takes for directories, in iteration order
DirectoriesOf(disk, entries) ==
    LET isDir(n) == IsDirectory(disk[n]) IN SelectSeq(entries, isDir)

\* the constructor is about to scan a runtime root of at most MaxEntries entries
InitScan ==
    /\ os \in OperatingSystems \ {"UNKNOWN"}
    /\ arch = "X64"
    /\ \E S \in SUBSET ScanNames :
          /\ Cardinality(S) <= MaxEntries
          /\ dirs \in [S -> ScanContents]
    /\ dlDirs = {}
    /\ files = NoFiles
    /\ m_availableRuntimes = <<>>
    /\ c = [t \in {1} |-> [IdleCall EXCEPT !.pc = "constructing"]]
    /\ hist = NewHist
    /\ ncalls = 0
    /\ nrestarts = 0
    /\ nfaults = 0
    /\ javaVersion = JavaVersion(Gamma, 17)

\* JavaManager::JavaManager: the scan of the root, whose directory_iterator
\* yields the entries in some order; an exception of findJavaExecutable leaves
\* the scan and the constructor
Construct(t) ==
    /\ c[t].pc = "constructing"
    /\ \E entries \in Orderings(DOMAIN dirs) :
          IF ScanThrows(dirs, entries)
          THEN /\ c' = [c EXCEPT ![t] = Escapes(c[t])]
               /\ m_availableRuntimes' = <<>>
          ELSE /\ c' = [c EXCEPT ![t] = IdleCall]
               /\ m_availableRuntimes' =
                     scanForExistingRuntimes(os, dirs, dlDirs, DirectoriesOf(dirs, entries))
    /\ UNCHANGED <<os, arch, dirs, dlDirs, files, hist, ncalls, nrestarts, nfaults,
                   javaVersion>>

NextScan == \E t \in DOMAIN c : Construct(t)

SpecScan == InitScan /\ [][NextScan]_vars

\* the subdirectories of the root that are not prefixed with _downloads, pass
\* executable discovery and pass name parsing
UsableDirectories ==
    { n \in DOMAIN dirs :
        /\ IsDirectory(dirs[n])
        /\ dirs[n] # Unreadable
        /\ ~StartsWith(n, DownloadsName)
        /\ findJavaExecutable(os, <<n>>, dirs[n]) # NoPath
        /\ ParseRuntimeDir(n, findJavaExecutable(os, <<n>>, dirs[n])) # <<>> }

\* the registry holds exactly one record for each usable directory
OneRecordPerUsableDirectory ==
    /\ Len(m_availableRuntimes) = Cardinality(UsableDirectories)
    /\ \A n \in UsableDirectories :
          \E i \in 1..Len(m_availableRuntimes) :
              m_availableRuntimes[i].javaExecutablePath
                  = findJavaExecutable(os, <<n>>, dirs[n])

\* C22: the startup scan is non-fatal per entry: for any content of the
\* runtime root the scan finishes, and the registry then holds exactly one
\* record for each immediate subdirectory that is not prefixed with
\* _downloads, passes executable discovery and passes name parsing.
ScanFinishesWithEveryUsableDirectory ==
    \A t \in DOMAIN c :
        c[t].pc # "constructing" =>
            /\ c[t].result # Threw
            /\ OneRecordPerUsableDirectory


\* the subdirectories of the root in which the scan finds an executable
DiscoveredDirectories ==
    { n \in DOMAIN dirs :
        /\ IsDirectory(dirs[n])
        /\ dirs[n] # Unreadable
        /\ ~StartsWith(n, DownloadsName)
        /\ findJavaExecutable(os, <<n>>, dirs[n]) # NoPath }

\* the records the registry holds for the directory n of the root
RecordsOf(n) ==
    { i \in 1..Len(m_availableRuntimes) :
        m_availableRuntimes[i].javaExecutablePath = findJavaExecutable(os, <<n>>, dirs[n]) }

\* the text before the last '_' of a name
Remainder(n) == SubSeq(n, 1, rfind(n, "_") - 1)

\* the text after the last '_' of a name
VersionText(n) == SubSeq(n, rfind(n, "_") + 1, Len(n))

\* the name has no '_' or nothing after its last '_'
NoVersionText(n) == rfind(n, "_") = npos \/ rfind(n, "_") = Len(n)

DiscoverHomes ==
    { Home(Str("jdk"), TRUE, {"java"}, TRUE, TRUE, FALSE, {}),
      Home(Str("jdk-win"), TRUE, {"javaw.exe", "java.exe"}, TRUE, TRUE, FALSE, {}),
      Home(Str("jdk-nojavaw"), TRUE, {"java.exe"}, TRUE, TRUE, FALSE, {}),
      Home(Str("jdk-all"), TRUE, {"java", "javaw.exe", "java.exe"}, TRUE, FALSE, FALSE, {}),
      Home(Str("empty-bin"), TRUE, {}, FALSE, FALSE, FALSE, {}),
      Home(Str("release-only"), FALSE, {}, TRUE, TRUE, FALSE, {}),
      NoHome(Str("docs")),
      Home(Str("bundle"), FALSE, {}, FALSE, FALSE, TRUE, {"java"}),
      Home(Str("bundle-both"), TRUE, {"java"}, TRUE, TRUE, TRUE, {"java"}),
      Home(Str("bundle-empty"), TRUE, {"java"}, TRUE, TRUE, TRUE, {}) }

\* the most subdirectories the root holds
MaxSubdirs == 2

\* the subdirectories of the root in the order directory_iterator yields them
SubdirLists ==
    { q \in UNION { [1..k -> DiscoverHomes] : k \in 0..MaxSubdirs } :
        \A i, j \in DOMAIN q : i # j => q[i].name # q[j].name }

\* what the path given to findJavaExecutable may name: nothing, a regular
\* file, a directory without bin, or a directory that has bin itself
DiscoverRoots ==
    { NoDir, RegularFile }
    \cup { Tree(NoHome(<<>>), subs) : subs \in SubdirLists }
    \cup { Tree([h EXCEPT !.name = <<>>], <<NoHome(Str("lib"))>>) :
              h \in { d \in DiscoverHomes : d.bin } }

\* the directory findJavaExecutable is called on
DiscoverBase == getExtractionPathForRuntime(JavaVersion(Gamma, 17))

\* findJavaExecutable is about to be called on DiscoverBase
InitDiscover ==
    /\ os \in OperatingSystems
    /\ arch = "X64"
    /\ \E root \in DiscoverRoots : dirs = [EmptyDisk EXCEPT ![DiscoverBase] = root]
    /\ dlDirs = {}
    /\ files = NoFiles
    /\ m_availableRuntimes = <<>>
    /\ c = [t \in {1} |-> [IdleCall EXCEPT !.pc = "discover"]]
    /\ hist = NewHist
    /\ ncalls = 0
    /\ nrestarts = 0
    /\ nfaults = 0
    /\ javaVersion = JavaVersion(Gamma, 17)

\* JavaManager::findJavaExecutable: the path it returns is kept in the call;
\* the function only queries the file system
Discover(t) ==
    /\ c[t].pc = "discover"
    /\ c' = [c EXCEPT ![t].pc = "discovered",
                      ![t].path = findJavaExecutable(os, <<DiscoverBase>>, dirs[DiscoverBase])]
    /\ UNCHANGED <<os, arch, dirs, dlDirs, files, m_availableRuntimes, hist, ncalls,
                   nrestarts, nfaults, javaVersion>>

NextDiscover == \E t \in DOMAIN c : Discover(t)

SpecDiscover == InitDiscover /\ [][NextDiscover]_vars

\* the root is a directory
IsTree(root) == root # NoDir /\ root # RegularFile

\* the subdirectory holds a bin directory or a regular file named release
LikelyHome(h) == h.bin \/ h.release

\* the regular files of the bin directory a system searches in home h
SearchedFiles(o, h) ==
    IF o = "MACOS" /\ h.macbin THEN h.macexes
    ELSE IF h.bin THEN h.exes
    ELSE {}

\* the bin directory a system searches in the home at path hp
SearchedBin(o, h, hp) ==
    IF o = "MACOS" /\ h.macbin THEN hp \o <<Str("Contents"), Str("Home"), Str("bin")>>
    ELSE hp \o <<Str("bin")>>

\* the names the build looks for in the bin directory, in its order of preference
WantedNames(o) == IF o = "WINDOWS" THEN <<"javaw.exe", "java.exe">> ELSE <<"java">>

\* the path of the first wanted name that is a regular file of the bin
\* directory searched in home h, or the empty path
FoundIn(o, h, hp) ==
    LET wanted == WantedNames(o)
        hits == { i \in 1..Len(wanted) : wanted[i] \in SearchedFiles(o, h) }
    IN  IF hits = {} THEN NoPath
        ELSE SearchedBin(o, h, hp) \o <<Str(wanted[Least(hits)])>>

HomeIndex(root) ==
    LET likely == { i \in 1..Len(root.subs) : LikelyHome(root.subs[i]) }
    IN  IF root.root.bin THEN 0
        ELSE IF Len(root.subs) = 1 THEN 1
        ELSE IF Len(root.subs) > 1 /\ likely # {} THEN Least(likely)
        ELSE -1

HomeOf(root) == IF HomeIndex(root) = 0 THEN root.root ELSE root.subs[HomeIndex(root)]

HomePathOf(root) ==
    IF HomeIndex(root) = 0 THEN <<DiscoverBase>> ELSE <<DiscoverBase, HomeOf(root).name>>

\* C25: on macOS, when Contents/Home/bin exists as a directory in the
\* candidate home, discovery searches that directory and not the home's bin:
\* the result is Contents/Home/bin/java when that is a regular file and the
\* empty path otherwise. On every other operating system no path through
\* Contents/Home is returned.
BundleBinSearchedOnMacOnly ==
    \A t \in DOMAIN c :
        LET root == dirs[DiscoverBase] IN
        (c[t].pc = "discovered" /\ IsTree(root)) =>
            /\ (os = "MACOS" /\ HomeIndex(root) >= 0 /\ HomeOf(root).macbin) =>
                  c[t].path =
                      IF "java" \in HomeOf(root).macexes
                      THEN HomePathOf(root) \o <<Str("Contents"), Str("Home"), Str("bin"),
                                                 Str("java")>>
                      ELSE NoPath
            /\ os # "MACOS" =>
                  \A i \in 1..Len(c[t].path) : c[t].path[i] # Str("Contents")

\* on macOS discovery returned Contents/Home/bin/java of a home that also
\* holds bin/java
BundleExecutableChosenOverBin ==
    \E t \in DOMAIN c :
        LET root == dirs[DiscoverBase] IN
        /\ c[t].pc = "discovered"
        /\ os = "MACOS"
        /\ IsTree(root)
        /\ HomeIndex(root) >= 0
        /\ HomeOf(root).bin
        /\ "java" \in HomeOf(root).exes
        /\ HomeOf(root).macbin
        /\ c[t].path = HomePathOf(root) \o <<Str("Contents"), Str("Home"), Str("bin"),
                                              Str("java")>>


\* the path names the file exe of the bin directory searched in the home
ReturnsFromBin(path, root, exe) ==
    path = SearchedBin(os, HomeOf(root), HomePathOf(root)) \o <<Str(exe)>>

\* C26: in the resolved bin directory a Windows build returns javaw.exe when
\* it is a regular file there, otherwise java.exe when that is one; every
\* other build returns java; when the file looked for is missing the result
\* is the empty path.
WindowsPrefersJavawOthersTakeJava ==
    \A t \in DOMAIN c :
        LET root == dirs[DiscoverBase] IN
        (c[t].pc = "discovered" /\ IsTree(root) /\ HomeIndex(root) >= 0) =>
            LET inBin == SearchedFiles(os, HomeOf(root))
            IN  IF os = "WINDOWS"
                THEN IF "javaw.exe" \in inBin THEN ReturnsFromBin(c[t].path, root, "javaw.exe")
                     ELSE IF "java.exe" \in inBin
                     THEN ReturnsFromBin(c[t].path, root, "java.exe")
                     ELSE c[t].path = NoPath
                ELSE IF "java" \in inBin THEN ReturnsFromBin(c[t].path, root, "java")
                     ELSE c[t].path = NoPath

\* a Windows build found no javaw.exe in the bin directory and returned java.exe
JavaExeReturnedWithoutJavaw ==
    \E t \in DOMAIN c :
        LET root == dirs[DiscoverBase] IN
        /\ c[t].pc = "discovered"
        /\ os = "WINDOWS"
        /\ IsTree(root)
        /\ HomeIndex(root) >= 0
        /\ "javaw.exe" \notin SearchedFiles(os, HomeOf(root))
        /\ ReturnsFromBin(c[t].path, root, "java.exe")


\* the directories of the tree that may hold a bin directory, each with its
\* path below the root
HomesOf(root) ==
    { <<root.root, <<>> >> } \cup { <<root.subs[i], <<root.subs[i].name>> >> : i \in 1..Len(root.subs) }

\* path names a regular file that stands directly in a bin directory of the
\* tree root, which is the directory base
IsRegularFileInBin(path, base, root) ==
    /\ IsTree(root)
    /\ Len(path) >= 3
    /\ path[1] = base
    /\ path[Len(path) - 1] = Str("bin")
    /\ \E hp \in HomesOf(root) :
          \/ /\ SubSeq(path, 2, Len(path) - 1) = hp[2] \o <<Str("bin")>>
             /\ hp[1].bin
             /\ \E exe \in hp[1].exes : path[Len(path)] = Str(exe)
          \/ /\ SubSeq(path, 2, Len(path) - 1)
                   = hp[2] \o <<Str("Contents"), Str("Home"), Str("bin")>>
             /\ hp[1].macbin
             /\ \E exe \in hp[1].macexes : path[Len(path)] = Str(exe)

\* no bin directory of the tree holds a regular file
HoldsNoExecutable(root) ==
    \A hp \in HomesOf(root) : hp[1].exes = {} /\ hp[1].macexes = {}

MetadataRequestFailed(resp) == resp.status # 200 \/ resp.body = Unparsable

\* C31: for both fetchers a metadata request that ends with a network error
\* or a status other than 200, or whose body is not valid JSON, gives
\* not-found for that source: the call has no candidate and goes on to Mojang
\* after Adoptium and returns absent after Mojang, no archive download is
\* started and nothing is written to disk.
FailedMetadataRequestGivesNotFound ==
    [][/\ \A t \in DOMAIN c, resp \in AdoptiumAnswers :
             (/\ AdoptiumSelects(t, resp)
              /\ Did(c'[t], "adoptium", "get")
              /\ MetadataRequestFailed(resp)) =>
                 /\ c'[t].pc = "mojang.query"
                 /\ c'[t].cand = NotFound
                 /\ ~Did(c'[t], "adoptium", "download")
                 /\ UNCHANGED <<dirs, dlDirs, files>>
       /\ \A t \in DOMAIN c, resp \in MojangManifests(os, arch, javaVersion) :
             (MojangSelects(t, resp) /\ MetadataRequestFailed(resp)) =>
                 /\ c'[t].pc = "done"
                 /\ c'[t].result = Absent
                 /\ c'[t].cand = NotFound
                 /\ ~Did(c'[t], "mojang", "download")
                 /\ UNCHANGED <<dirs, dlDirs, files>>]_vars

\* both metadata requests were sent, neither gave a candidate and the call
\* returned absent with nothing on disk
BothMetadataRequestsGaveNothing ==
    \E t \in DOMAIN c :
        /\ c[t].pc = "done"
        /\ Did(c[t], "adoptium", "get")
        /\ Did(c[t], "mojang", "get")
        /\ c[t].result = Absent
        /\ files = NoFiles
        /\ dirs = EmptyDisk


\* ------------------------------------------------------- the extraction alone

\* what the extraction directory may hold when extractJavaArchive is called
OldTrees == {NoDir, EmptyTree, NestedPartialTree, NestedTree, FlatTree, NoJavaTree}

\* a call whose archive from src has been verified and is about to be extracted
VerifiedCall(src, version, disk) ==
    [DownloadedCall(src, version, DigestFor(src, "jre")) EXCEPT
        !.pc = "extract",
        !.path = <<src, Str("jre.zip")>>,
        !.sourceApi = src,
        !.events = @ \o <<<<src, "verified">>>>,
        !.snap = [dirs |-> disk, dlDirs |-> Sources, files |-> NoFiles,
                  registry |-> <<>>]]

\* ensure is about to call extractJavaArchive, for every archive content and
\* every earlier state of the extraction directory
InitExtract ==
    /\ os \in {"LINUX", "WINDOWS"}
    /\ arch = "X64"
    /\ dlDirs = Sources
    /\ m_availableRuntimes = <<>>
    /\ hist = NewHist
    /\ ncalls = 1
    /\ nrestarts = 0
    /\ nfaults \in 0..MaxFaults
    /\ javaVersion \in Requirements
    /\ \E src \in Sources, old \in OldTrees, content \in Contents \cup {PartialContent} :
          /\ dirs = [EmptyDisk EXCEPT ![getExtractionPathForRuntime(javaVersion)] = old]
          /\ files = [NoFiles EXCEPT ![<<src, Str("jre.zip")>>] = content]
          /\ c = [t \in {1} |-> VerifiedCall(src, javaVersion, dirs)]

NextExtract == \E t \in DOMAIN c : Extract(t)

SpecExtract == InitExtract /\ [][NextExtract]_vars

\* C32: when extractJavaArchive succeeds on a destination directory that
\* already existed, the destination afterwards holds exactly the tree of the
\* archive: only entries of the archive and nothing of what was there before.
SuccessfulExtractionReplacesDirectory ==
    [][\A t \in DOMAIN c :
          (/\ Extract(t)
           /\ Did(c'[t], "local", "extracted")
           /\ dirs[Target(c[t])] # NoDir) =>
              dirs'[Target(c[t])] = ArchiveTree(files[c[t].path])]_vars

\* an archive without a runtime was extracted over a directory that held a
\* flat runtime, and the directory holds the archive's two directories only
OldRuntimeReplacedByArchive ==
    \E t \in DOMAIN c :
        /\ c[t].pc = "locate"
        /\ Did(c[t], "local", "extracted")
        /\ c[t].snap.dirs[Target(c[t])] = FlatTree
        /\ dirs[Target(c[t])] = NoJavaTree


\* ----------------------------------------------- archive entries one by one

\* an entry of a ZIP archive with what happens when it is extracted: a
\* directory entry is created or create_directories fails; a file entry is
\* saved or saving fails; the entry's info cannot be read; or the entry is
\* written and the step to the next entry fails
ZipEntry(dir, outcome) == [dir |-> dir, outcome |-> outcome]

ZipEntries ==
    { ZipEntry(TRUE, "created"), ZipEntry(TRUE, "mkdir.failed"),
      ZipEntry(FALSE, "saved"), ZipEntry(FALSE, "save.failed"),
      ZipEntry(FALSE, "info.failed"),
      ZipEntry(TRUE, "next.failed"), ZipEntry(FALSE, "next.failed") }

\* the most entries an archive holds
MaxZipEntries == 2

ZipArchives == UNION { [1..k -> ZipEntries] : k \in 0..MaxZipEntries }

RECURSIVE ExtractAllFrom(_, _, _)
\* the loop of ZipFile::extractAll from entry i on (ZipFile.cpp 130-181):
\* ensureDirectoryExists reports nothing to the loop, a failed save clears
\* all_successful and the loop goes on, a failed traversal ends it
ExtractAllFrom(entries, i, all_successful) ==
    IF i > Len(entries) THEN all_successful
    ELSE IF entries[i].outcome \in {"info.failed", "next.failed"} THEN FALSE
    ELSE IF entries[i].dir THEN ExtractAllFrom(entries, i + 1, all_successful)
    ELSE ExtractAllFrom(entries, i + 1, all_successful /\ entries[i].outcome = "saved")

\* ZipFile::extractAll on an archive that can be opened or not
extractAll(opened, entries) == opened /\ ExtractAllFrom(entries, 1, TRUE)

\* minizip_extract_callback: MZ_OK (TRUE) or MZ_INTERNAL_ERROR for one entry
minizip_extract_callback(entry) == entry.outcome \in {"created", "saved"}

\* the return value of JavaManager::extractJavaArchive over the entries:
\* mz_zip_reader_extract_all_cb gives MZ_OK when the traversal and every
\* callback did (JavaManager.cpp 106-133)
ExtractAllCb(opened, entries) ==
    opened /\ \A i \in 1..Len(entries) : minizip_extract_callback(entries[i])

\* an extractor is about to unpack an archive
InitZip ==
    /\ os = "LINUX"
    /\ arch = "X64"
    /\ dirs = EmptyDisk
    /\ dlDirs = Sources
    /\ files = NoFiles
    /\ m_availableRuntimes = <<>>
    /\ hist = NewHist
    /\ ncalls = 0
    /\ nrestarts = 0
    /\ nfaults = 0
    /\ javaVersion = JavaVersion(Gamma, 17)
    /\ \E opened \in BOOLEAN, entries \in ZipArchives :
          c = [t \in {1} |-> [pc |-> "unzip", opened |-> opened, entries |-> entries,
                              by |-> "nobody", returned |-> FALSE]]

\* ZipFile::extractAll runs over the archive
ZipFileExtracts(t) ==
    /\ c[t].pc = "unzip"
    /\ c' = [c EXCEPT ![t].pc = "unzipped", ![t].by = "ZipFile",
                      ![t].returned = extractAll(c[t].opened, c[t].entries)]
    /\ UNCHANGED <<os, arch, dirs, dlDirs, files, m_availableRuntimes, hist, ncalls,
                   nrestarts, nfaults, javaVersion>>

\* JavaManager::extractJavaArchive runs over the archive
JavaManagerExtracts(t) ==
    /\ c[t].pc = "unzip"
    /\ c' = [c EXCEPT ![t].pc = "unzipped", ![t].by = "JavaManager",
                      ![t].returned = ExtractAllCb(c[t].opened, c[t].entries)]
    /\ UNCHANGED <<os, arch, dirs, dlDirs, files, m_availableRuntimes, hist, ncalls,
                   nrestarts, nfaults, javaVersion>>

NextZip ==
    \/ \E t \in DOMAIN c : ZipFileExtracts(t)
    \/ \E t \in DOMAIN c : JavaManagerExtracts(t)

SpecZip == InitZip /\ [][NextZip]_vars

\* C33: extraction never silently succeeds: extractJavaArchive and
\* ZipFile::extractAll return true only if every entry of the archive,
\* directory entries included, was created or written without error.
TrueOnlyIfEveryEntryWasWritten ==
    \A t \in DOMAIN c :
        (c[t].pc = "unzipped" /\ c[t].returned) =>
            \A i \in 1..Len(c[t].entries) : c[t].entries[i].outcome \in {"created", "saved"}


\* ------------------------------------------------------- the hasher by chunks

\* the most buffers a hashed file fills
MaxChunks == 2

\* a file as the buffers the read loop fills from it
ChunkedFiles == UNION { [1..k -> {"x", "y"}] : k \in 0..MaxChunks }

\* bytesToHexString of the digest of the data given to the update calls:
\* the published digests of no data, and one hex string per other data
\* (a digest is written by its first eight hex digits)
HexDigestOf(algorithm, fed) ==
    LET sha1 == CASE fed = <<>> -> "da39a3ee"
                  [] fed = <<"x">> -> "11f6ad8e"
                  [] fed = <<"y">> -> "95cb0bfd"
                  [] fed = <<"x", "x">> -> "dd7b7b74"
                  [] fed = <<"x", "y">> -> "5f8459b1"
                  [] fed = <<"y", "x">> -> "f7dd9d02"
                  [] OTHER -> "4a3cdb4e"
        sha256 == CASE fed = <<>> -> "e3b0c442"
                    [] fed = <<"x">> -> "2d711642"
                    [] fed = <<"y">> -> "a1fce436"
                    [] fed = <<"x", "x">> -> "5dde896e"
                    [] fed = <<"x", "y">> -> "3e744b9d"
                    [] fed = <<"y", "x">> -> "c7d1a4f0"
                    [] OTHER -> "9b2d5b46"
    IN  IF algorithm = "SHA1" THEN sha1 ELSE sha256

\* Utils::calculateFileSHA1 and Utils::calculateFileSHA256: "" when the file
\* does not open or a crypto call fails; the read loop runs while
\* file.good() and ends alike at the end of the file and at a read error,
\* and the data read until then is digested (Crypto.cpp 24-63, 65-122)
calculateFileDigest(algorithm, opens, chunks, readFailsAt, cryptoFails) ==
    LET fed == IF readFailsAt = 0 THEN chunks ELSE SubSeq(chunks, 1, readFailsAt - 1)
    IN  IF ~opens THEN ""
        ELSE IF cryptoFails = "init" THEN ""
        ELSE IF cryptoFails = "update" /\ fed # <<>> THEN ""
        ELSE IF cryptoFails = "final" THEN ""
        ELSE HexDigestOf(algorithm, fed)

\* a file is about to be hashed; readFailsAt is the buffer whose read fails
\* (0: every read succeeds)
InitHash ==
    /\ os = "LINUX"
    /\ arch = "X64"
    /\ dirs = EmptyDisk
    /\ dlDirs = Sources
    /\ files = NoFiles
    /\ m_availableRuntimes = <<>>
    /\ hist = NewHist
    /\ ncalls = 0
    /\ nrestarts = 0
    /\ nfaults = 0
    /\ javaVersion = JavaVersion(Gamma, 17)
    /\ \E algorithm \in {"SHA1", "SHA256"}, opens \in BOOLEAN, chunks \in ChunkedFiles,
          cryptoFails \in {"none", "init", "update", "final"} :
          \E readFailsAt \in 0..Len(chunks) :
              c = [t \in {1} |-> [pc |-> "hash", algorithm |-> algorithm, opens |-> opens,
                                  chunks |-> chunks, readFailsAt |-> readFailsAt,
                                  cryptoFails |-> cryptoFails, digest |-> ""]]

\* the hasher runs over the file
Hash(t) ==
    /\ c[t].pc = "hash"
    /\ c' = [c EXCEPT ![t].pc = "hashed",
                      ![t].digest = calculateFileDigest(c[t].algorithm, c[t].opens,
                                        c[t].chunks, c[t].readFailsAt, c[t].cryptoFails)]
    /\ UNCHANGED <<os, arch, dirs, dlDirs, files, m_availableRuntimes, hist, ncalls,
                   nrestarts, nfaults, javaVersion>>

NextHash == \E t \in DOMAIN c : Hash(t)

SpecHash == InitHash /\ [][NextHash]_vars

\* C34: the hasher reports failure (the empty string) whenever the file
\* cannot be opened, cannot be read to its end, or a crypto primitive fails,
\* and returns a non-empty hex digest otherwise.
HasherFailsOnEveryIncompleteRead ==
    \A t \in DOMAIN c :
        c[t].pc = "hashed" =>
            /\ (~c[t].opens \/ c[t].readFailsAt # 0) => c[t].digest = ""
            /\ (c[t].opens /\ c[t].readFailsAt = 0 /\ c[t].cryptoFails = "none")
                   => c[t].digest # ""


\* C35: every record that ensure returns, from a cache hit or from a new
\* resolution, has componentName equal to the requirement's component and
\* majorVersion equal to the requirement's majorVersion.
ReturnedRecordAnswersTheRequirement ==
    \A t \in DOMAIN c :
        (c[t].pc = "done" /\ c[t].result.kind = "record") =>
            /\ c[t].result.rt.componentName = c[t].version.component
            /\ c[t].result.rt.majorVersion = c[t].version.majorVersion

\* a call after a restart is answered from the registry the scan rebuilt,
\* which holds a record of another requirement as well
ScannedRecordReturnedAmongOthers ==
    \E t \in DOMAIN c :
        /\ c[t].pc = "done"
        /\ c[t].result.kind = "record"
        /\ c[t].events = <<>>
        /\ nrestarts = 1
        /\ \E i \in 1..Len(m_availableRuntimes) :
              m_availableRuntimes[i].componentName # c[t].version.component


\* C36: the registry changes only by appending: an ensure call that returns
\* absent or hits the cache leaves the registry as it was when the call
\* began, and an ensure call that resolves a new runtime leaves it with
\* exactly the record it returns appended; no record is removed or altered.
RegistryChangesOnlyByAppending ==
    \A t \in DOMAIN c :
        c[t].pc = "done" =>
            LET before == c[t].snap.registry
            IN  IF c[t].result.kind = "record" /\ CacheHit(before, c[t].version) = 0
                THEN m_availableRuntimes = Append(before, c[t].result.rt)
                ELSE m_availableRuntimes = before

\* a new runtime was resolved while the registry held a record already
RecordAppendedToNonEmptyRegistry ==
    \E t \in DOMAIN c :
        /\ c[t].pc = "done"
        /\ c[t].result.kind = "record"
        /\ c[t].snap.registry # <<>>
        /\ Len(m_availableRuntimes) = Len(c[t].snap.registry) + 1


\* ------------------------------------------- an extraction, then a restart

\* ensure is about to extract a verified archive into an empty runtime root
InitRescan == InitExtract /\ dirs = EmptyDisk

NextRescan ==
    \/ \E t \in DOMAIN c : Extract(t)
    \/ \E t \in DOMAIN c : Locate(t)
    \/ \E t \in DOMAIN c : Return(t)
    \/ Restart

SpecRescan == InitRescan /\ [][NextRescan]_vars

\* the directories an extraction that completed successfully produces
CompletedExtractions == { Overlay(EmptyTree, ArchiveTree(content)) : content \in Contents }

\* C37: every record a startup scan puts in the registry refers to a
\* directory produced by an extraction that completed successfully: after a
\* restart, a directory left behind by a failed extraction is not registered.
ScanRegistersOnlyCompletedExtractions ==
    nrestarts > 0 =>
        \A i \in 1..Len(m_availableRuntimes) :
            dirs[m_availableRuntimes[i].homePath[1]] \in CompletedExtractions


\* C38: in the Mojang fetcher, an entry whose version name is missing or
\* cannot be parsed as a major version is never selected as the candidate,
\* for every required majorVersion including 0: a candidate is the url and
\* sha1 of an entry whose name is present, parses, and gives the required
\* major version.
CandidateComesFromAParsedName ==
    [][\A t \in DOMAIN c, resp \in MojangManifests(os, arch, javaVersion) :
          (MojangSelects(t, resp) /\ HoldsComponent(resp, os, arch, javaVersion)
              /\ c'[t].cand.kind = "cand") =>
              \E i \in 1..Len(resp.body.entries) :
                  /\ NameParses(resp.body.entries[i])
                  /\ EntryMajorVersion(resp.body.entries[i]) = javaVersion.majorVersion
                  /\ TakenFrom(c'[t].cand, resp.body.entries[i])]_vars


\* how far a call has come: the order of the steps of ensure
StepRank(pc) ==
    CASE pc = "idle" -> 0
      [] pc = "adoptium.query" -> 1
      [] pc = "mojang.query" -> 2
      [] pc = "extract" -> 3
      [] pc = "locate" -> 4
      [] pc = "done" -> 5

\* the number of times the call did operation op on source src
Times(call, src, op) ==
    Cardinality({ i \in 1..Len(call.events) : call.events[i] = <<src, op>> })

\* C39: every ensure call terminates when each transport call does, and
\* within one call each source is attempted at most once: every step of a
\* call in progress takes it strictly forward in the order Adoptium, Mojang,
\* extraction, discovery, return, and the call has sent at most one Adoptium
\* query, one Mojang manifest request, one archive download per source and
\* has run at most one extraction.
EnsureGoesForwardAndTriesEachSourceOnce ==
    [][\A t \in DOMAIN c :
          /\ (c[t].pc \notin {"idle", "done"} /\ c'[t] # c[t]) =>
                 StepRank(c'[t].pc) > StepRank(c[t].pc)
          /\ \A src \in Sources :
                 /\ Times(c'[t], src, "call") <= 1
                 /\ Times(c'[t], src, "get") <= 1
                 /\ Times(c'[t], src, "download") <= 1
          /\ Times(c'[t], "local", "extracted") + Times(c'[t], "local", "extract.failed") <= 1]_vars

\* a call has gone through both sources and an extraction and has returned
\* absent
BothSourcesAndExtractionTriedOnce ==
    \E t \in DOMAIN c :
        /\ c[t].pc = "done"
        /\ c[t].result = Absent
        /\ Times(c[t], "adoptium", "get") = 1
        /\ Times(c[t], "adoptium", "download") = 1
        /\ Times(c[t], "mojang", "get") = 1
        /\ Times(c[t], "mojang", "download") = 1
        /\ Times(c[t], "local", "extract.failed") = 1


\* C40: for every (OS, Architecture) pair, if the platform is unsupported
\* for Adoptium (empty OS or architecture string) then the Mojang key of the
\* pair is the unmapped sentinel as well; so on every platform where ensure
\* skips Adoptium the Mojang fallback returns not-found and ensure returns
\* absent, with no request to Adoptium and no download.
AdoptiumUnsupportedPlatformGetsAbsent ==
    (getOSStringForAdoptium(os) = "" \/ getArchStringForAdoptium(arch) = "") =>
        /\ getOSStringForJavaManifest(os, arch) = UnknownOsArchMojang
        /\ \A t \in DOMAIN c :
              /\ c[t].pc \in {"adoptium.query", "mojang.query", "done"}
              /\ c[t].pc = "done" =>
                    /\ c[t].result = Absent
                    /\ ~Did(c[t], "adoptium", "get")
                    /\ Did(c[t], "mojang", "call")
                    /\ ~Did(c[t], "mojang", "download")

\* ensure has returned absent on an unknown OS with a known architecture,
\* after the Mojang manifest was fetched
AbsentOnUnknownOsAfterManifest ==
    \E t \in DOMAIN c :
        /\ os = "UNKNOWN"
        /\ arch = "X64"
        /\ c[t].pc = "done"
        /\ c[t].result = Absent
        /\ Did(c[t], "mojang", "get")

====
